---- MODULE Spec2Model ----
(***************************************************************************)
(* Verification model of sendspin-groupsync: the calibration session        *)
(* (CalibrationSession.ts), its offset aggregation (OffsetCalculator.ts),   *)
(* the click schedule (ClickTrackGenerator.ts) and the microphone detector  *)
(* (AudioDetector.ts).                                                      *)
(*                                                                         *)
(* the clock synchronizer (ClockSynchronizer.ts) and the sync client       *)
(* (SendspinSyncClient.ts).                                                *)
(*                                                                         *)
(* The specifications of the module:                                       *)
(*   SpecMatch    the pure functions matchDetections and                   *)
(*                calculateAverageOffset applied to bounded inputs;        *)
(*   Spec         the CalibrationSession object driven by start(), stop(), *)
(*                its timers, its awaited promises and the detector        *)
(*                callback;                                                *)
(*   SpecRestart  Spec followed by one more start() on the same session;   *)
(*   SpecClock    a ClockSynchronizer given time exchanges and reset();    *)
(*   SpecSync     two SendspinSyncClient objects on the clock singleton.   *)
(* Times of the session are integers in milliseconds, frequencies integers *)
(* in Hz; means and variances of the offset aggregation are exact          *)
(* rationals [n |-> numerator, d |-> denominator].  Times of the clock     *)
(* synchronizer are integers in microseconds and its estimates binary64    *)
(* numbers.                                                                *)
(***************************************************************************)
EXTENDS Integers, Sequences, FiniteSets, TLC

(***************************************************************************)
(* Bounds of the model                                                     *)
(***************************************************************************)
\* longest arbitrary detection list given to matchDetections (SpecMatch)
MaxDetLen == 3
\* longest list of matched pairs given directly to calculateAverageOffset
MaxPairs == 5

(***************************************************************************)
(* Program constants                                                       *)
(***************************************************************************)
frequencyTolerance == 150
MatchWindowMs == 300
SeedDetections == 5
ConfidenceScale == 50

(***************************************************************************)
(* Arithmetic helpers                                                      *)
(***************************************************************************)
Abs(x) == IF x < 0 THEN -x ELSE x

RECURSIVE GCD(_, _)
GCD(a, b) == IF b = 0 THEN a ELSE GCD(b, a % b)

\* the rational n/d (d > 0) in lowest terms
Rat(n, d) ==
  LET g == GCD(Abs(n), d)
  IN  [n |-> n \div g, d |-> d \div g]

RatInt(k) == [n |-> k, d |-> 1]

RatGeqInt(r, k) == r.n >= k * r.d

RECURSIVE SumSeq(_)
SumSeq(s) == IF s = <<>> THEN 0 ELSE Head(s) + SumSeq(Tail(s))

\* new Float32Array(values): an integer of magnitude up to 2^24 is stored
\* exactly; between 2^24 and 2^25 it is rounded to a multiple of 2, ties to
\* the even significand (a multiple of 4).
Fround(x) ==
  IF Abs(x) <= 16777216 THEN x
  ELSE IF x % 2 = 0 THEN x
  ELSE IF (x + 1) % 4 = 0 THEN x + 1 ELSE x - 1

FroundSeq(s) == [i \in DOMAIN s |-> Fround(s[i])]

(***************************************************************************)
(* Configurations                                                          *)
(***************************************************************************)
\* DEFAULT_CALIBRATION_CONFIG
DefaultConfig ==
  [clickIntervalMs |-> 1000, totalClicks |-> 20,
   frequencies |-> <<500, 1000, 2000, 3000>>]

\* a short run of the default track
ShortConfig ==
  [clickIntervalMs |-> 1000, totalClicks |-> 3,
   frequencies |-> <<500, 1000, 2000, 3000>>]

\* one frequency, clicks 200 ms apart: several schedule entries compete for
\* one detection
DenseConfig ==
  [clickIntervalMs |-> 200, totalClicks |-> 1,
   frequencies |-> <<1000>>]

MatchConfigs == {DefaultConfig, ShortConfig, DenseConfig}

(***************************************************************************)
(* ClickTrackGenerator.getClickTimestamps, as the session constructs it:    *)
(* totalDuration is config.totalClicks, clickInterval config.clickIntervalMs*)
(***************************************************************************)
NumClicks(config) == (config.totalClicks * 1000) \div config.clickIntervalMs

\* the times counted from the end of the first interval
getClickTimestampsFromOne(config) ==
  [k \in 1..NumClicks(config) |->
     [time |-> k * config.clickIntervalMs,
      frequency |-> config.frequencies[((k - 1) % Len(config.frequencies)) + 1]]]

getClickTimestamps(config) ==
  [k \in 1..NumClicks(config) |->
     [time |-> (k - 1) * config.clickIntervalMs,
      frequency |-> config.frequencies[((k - 1) % Len(config.frequencies)) + 1]]]

(***************************************************************************)
(* CalibrationSession.matchDetections                                      *)
(***************************************************************************)
FrequencyMatches(detection, expected) ==
  Abs(detection.frequency - expected.frequency) <= frequencyTolerance

\* inner loop of the first pass: the first schedule entry, from position k,
\* with a matching frequency sets estimatedOffset; none leaves it unchanged
RECURSIVE SeedFromDetection(_, _, _, _)
SeedFromDetection(expectedClicks, detection, k, estimatedOffset) ==
  IF k > Len(expectedClicks) THEN estimatedOffset
  ELSE IF FrequencyMatches(detection, expectedClicks[k])
       THEN detection.timestamp - expectedClicks[k].time
       ELSE SeedFromDetection(expectedClicks, detection, k + 1, estimatedOffset)

\* outer loop of the first pass over detections.slice(0, 5): it stops after
\* the first detection that leaves estimatedOffset !== 0
RECURSIVE EstimateOffset(_, _, _, _)
EstimateOffset(expectedClicks, detections, j, estimatedOffset) ==
  IF j > Len(detections) \/ j > SeedDetections THEN estimatedOffset
  ELSE LET e == SeedFromDetection(expectedClicks, detections[j], 1, estimatedOffset)
       IN  IF e # 0 THEN e
           ELSE EstimateOffset(expectedClicks, detections, j + 1, e)

\* the distance taken without the estimated offset
CandidateDiffUnadjusted(expectedClicks, detection, i, estimatedOffset) ==
  Abs(detection.timestamp - expectedClicks[i].time)

\* is schedule entry i (1-based) a candidate for the detection, and at which
\* distance
CandidateDiff(expectedClicks, detection, i, estimatedOffset) ==
  Abs(detection.timestamp - (expectedClicks[i].time + estimatedOffset))

\* the candidate test without the usedExpected set (an entry may be reused)
IsCandidateReusing(expectedClicks, detection, i, estimatedOffset, usedExpected) ==
  /\ FrequencyMatches(detection, expectedClicks[i])
  /\ CandidateDiff(expectedClicks, detection, i, estimatedOffset) < MatchWindowMs

IsCandidate(expectedClicks, detection, i, estimatedOffset, usedExpected) ==
  /\ i \notin usedExpected
  /\ FrequencyMatches(detection, expectedClicks[i])
  /\ CandidateDiff(expectedClicks, detection, i, estimatedOffset) < MatchWindowMs

\* the for-i loop: best is 0 (null) or the index of the best entry so far
RECURSIVE BestMatch(_, _, _, _, _, _)
BestMatch(expectedClicks, detection, i, best, estimatedOffset, usedExpected) ==
  IF i > Len(expectedClicks) THEN best
  ELSE LET better ==
             /\ IsCandidate(expectedClicks, detection, i, estimatedOffset, usedExpected)
             /\ \/ best = 0
                \/ CandidateDiff(expectedClicks, detection, i, estimatedOffset)
                     < CandidateDiff(expectedClicks, detection, best, estimatedOffset)
       IN  BestMatch(expectedClicks, detection, i + 1,
                     IF better THEN i ELSE best, estimatedOffset, usedExpected)

\* the for-detection loop.  A matched pair carries, besides expectedTime and
\* detectedTime, the schedule index it consumed and the position of its
\* detection, so that the pairing itself can be inspected.
RECURSIVE MatchLoop(_, _, _, _, _, _)
MatchLoop(expectedClicks, detections, j, estimatedOffset, usedExpected, matched) ==
  IF j > Len(detections) THEN matched
  ELSE LET b == BestMatch(expectedClicks, detections[j], 1, 0,
                          estimatedOffset, usedExpected)
       IN  IF b # 0
           THEN MatchLoop(expectedClicks, detections, j + 1, estimatedOffset,
                          usedExpected \cup {b},
                          Append(matched,
                                 [expectedTime |-> expectedClicks[b].time,
                                  detectedTime |-> detections[j].timestamp,
                                  index |-> b, detection |-> j]))
           ELSE MatchLoop(expectedClicks, detections, j + 1, estimatedOffset,
                          usedExpected, matched)

matchDetections(expectedClicks, detections) ==
  MatchLoop(expectedClicks, detections, 1,
            EstimateOffset(expectedClicks, detections, 1, 0), {}, <<>>)

(***************************************************************************)
(* OffsetCalculator.calculateAverageOffset                                 *)
(*                                                                         *)
(* With S the sum and n the length of the offsets:                         *)
(*   mean    = S / n                                                       *)
(*   stdDev^2 = sum (n*x - S)^2 / n^3                                      *)
(*   |x - mean| <= 2*stdDev  iff  n * (n*x - S)^2 <= 4 * sum (n*x - S)^2   *)
(* The result holds the square of stdDev; confidence                       *)
(* min(1, max(0, 1 - stdDev/50)) is 1 iff stdDev = 0 and 0 iff             *)
(* stdDev >= 50, and is otherwise kept as the stdDev^2 it derives from.    *)
(***************************************************************************)
mean(arr) == Rat(SumSeq(arr), Len(arr))

ScaledDeviationSq(arr, x) ==
  LET dev == Len(arr) * x - SumSeq(arr) IN dev * dev

SumScaledDeviationSq(arr) ==
  SumSeq([i \in DOMAIN arr |-> ScaledDeviationSq(arr, arr[i])])

\* standardDeviation(arr, mean(arr)), squared
standardDeviationSq(arr) ==
  Rat(SumScaledDeviationSq(arr), Len(arr) * Len(arr) * Len(arr))

WithinTwoStdDev(arr, x) ==
  Len(arr) * ScaledDeviationSq(arr, x) <= 4 * SumScaledDeviationSq(arr)

RECURSIVE FilterOffsets(_, _, _)
FilterOffsets(arr, i, kept) ==
  IF i > Len(arr) THEN kept
  ELSE FilterOffsets(arr, i + 1,
                     IF WithinTwoStdDev(arr, arr[i]) THEN Append(kept, arr[i]) ELSE kept)

ConfOne == [value |-> RatInt(1), fromStdDevSq |-> RatInt(0)]
ConfZero == [value |-> RatInt(0), fromStdDevSq |-> RatInt(0)]
ConfHalf == [value |-> Rat(1, 2), fromStdDevSq |-> RatInt(0)]

\* Math.min(1, Math.max(0, 1 - finalStdDev / 50))
ConfidenceOf(stdDevSq) ==
  IF stdDevSq.n = 0 THEN ConfOne
  ELSE IF RatGeqInt(stdDevSq, ConfidenceScale * ConfidenceScale) THEN ConfZero
  ELSE [value |-> RatInt(1), fromStdDevSq |-> stdDevSq]

\* calculateAverageOffset without the early return for an empty list: the
\* empty list falls into the fallback of the empty filtered set
calculateAverageOffsetNoEmptyCase(detections) ==
  LET offsets == FroundSeq([i \in DOMAIN detections |->
                    detections[i].detectedTime - detections[i].expectedTime])
      filteredOffsets == FilterOffsets(offsets, 1, <<>>)
      filtered32 == FroundSeq(filteredOffsets)
  IN  IF Len(filteredOffsets) = 0
      THEN [offsetMs |-> RatInt(0), confidence |-> ConfHalf, stdDevSq |-> RatInt(0)]
      ELSE [offsetMs |-> mean(filtered32),
            confidence |-> ConfidenceOf(standardDeviationSq(filtered32)),
            stdDevSq |-> standardDeviationSq(filtered32)]

calculateAverageOffset(detections) ==
  IF Len(detections) = 0
  THEN [offsetMs |-> RatInt(0), confidence |-> ConfZero, stdDevSq |-> RatInt(0)]
  ELSE LET offsets == FroundSeq([i \in DOMAIN detections |->
                         detections[i].detectedTime - detections[i].expectedTime])
           filteredOffsets == FilterOffsets(offsets, 1, <<>>)
           filtered32 == FroundSeq(filteredOffsets)
       IN  IF Len(filteredOffsets) = 0
           THEN [offsetMs |-> mean(offsets), confidence |-> ConfHalf,
                 stdDevSq |-> standardDeviationSq(offsets)]
           ELSE [offsetMs |-> mean(filtered32),
                 confidence |-> ConfidenceOf(standardDeviationSq(filtered32)),
                 stdDevSq |-> standardDeviationSq(filtered32)]

(***************************************************************************)
(* JavaScript numbers: IEEE 754 binary64, round to nearest, ties to even   *)
(*                                                                         *)
(* A number is [sign, mant, exp] and stands for (-1)^sign * mant * 2^exp,  *)
(* where mant is a natural number of exactly 53 bits, held as a sequence   *)
(* of 15-bit limbs, least significant first; zero has the empty mantissa.  *)
(* The exponent is not limited: no value of the model comes near the       *)
(* overflow or the subnormal range of binary64.  -0 is not told from +0.   *)
(***************************************************************************)
LimbBase == 2^15
MantissaBits == 53

RECURSIVE BigTrim(_)
BigTrim(a) ==
  IF a = <<>> THEN <<>>
  ELSE IF a[Len(a)] = 0 THEN BigTrim(SubSeq(a, 1, Len(a) - 1)) ELSE a

RECURSIVE BigFromInt(_)
BigFromInt(n) ==
  IF n = 0 THEN <<>> ELSE <<n % LimbBase>> \o BigFromInt(n \div LimbBase)

RECURSIVE BigAddCarry(_, _, _)
BigAddCarry(a, b, carry) ==
  IF a = <<>> /\ b = <<>>
  THEN IF carry = 0 THEN <<>> ELSE <<carry>>
  ELSE LET x == (IF a = <<>> THEN 0 ELSE Head(a)) + (IF b = <<>> THEN 0 ELSE Head(b)) + carry
       IN  <<x % LimbBase>> \o BigAddCarry(IF a = <<>> THEN <<>> ELSE Tail(a),
                                           IF b = <<>> THEN <<>> ELSE Tail(b),
                                           x \div LimbBase)

BigAdd(a, b) == BigAddCarry(a, b, 0)

\* a - b for a >= b
RECURSIVE BigSubBorrow(_, _, _)
BigSubBorrow(a, b, borrow) ==
  IF a = <<>> THEN <<>>
  ELSE LET x == Head(a) - (IF b = <<>> THEN 0 ELSE Head(b)) - borrow
       IN  <<x % LimbBase>> \o BigSubBorrow(Tail(a),
                                            IF b = <<>> THEN <<>> ELSE Tail(b),
                                            IF x < 0 THEN 1 ELSE 0)

BigSub(a, b) == BigTrim(BigSubBorrow(a, b, 0))

\* -1, 0 or 1
RECURSIVE BigCmpFrom(_, _, _)
BigCmpFrom(a, b, i) ==
  IF i = 0 THEN 0
  ELSE IF a[i] < b[i] THEN -1
  ELSE IF a[i] > b[i] THEN 1
  ELSE BigCmpFrom(a, b, i - 1)

BigCmp(a, b) ==
  IF Len(a) < Len(b) THEN -1
  ELSE IF Len(a) > Len(b) THEN 1
  ELSE BigCmpFrom(a, b, Len(a))

RECURSIVE BigMulLimb(_, _, _)
BigMulLimb(a, d, carry) ==
  IF a = <<>>
  THEN IF carry = 0 THEN <<>> ELSE <<carry>>
  ELSE LET x == Head(a) * d + carry
       IN  <<x % LimbBase>> \o BigMulLimb(Tail(a), d, x \div LimbBase)

BigShiftLimbs(a, n) ==
  IF a = <<>> THEN <<>> ELSE [i \in 1..n |-> 0] \o a

RECURSIVE BigMul(_, _)
BigMul(a, b) ==
  IF a = <<>> \/ b = <<>> THEN <<>>
  ELSE BigAdd(IF Head(b) = 0 THEN <<>> ELSE BigMulLimb(a, Head(b), 0),
              BigShiftLimbs(BigMul(a, Tail(b)), 1))

\* a * 2^k
BigShiftLeft(a, k) ==
  BigShiftLimbs(BigMulLimb(a, 2^(k % 15), 0), k \div 15)

\* floor(a / d) for a limb d
RECURSIVE BigDivLimbFrom(_, _, _, _)
BigDivLimbFrom(a, i, rem, d) ==
  IF i = 0 THEN <<>>
  ELSE LET cur == rem * LimbBase + a[i]
       IN  BigDivLimbFrom(a, i - 1, cur % d, d) \o <<cur \div d>>

\* floor(a / 2^k)
BigShiftRight(a, k) ==
  IF k \div 15 >= Len(a) THEN <<>>
  ELSE LET upper == SubSeq(a, (k \div 15) + 1, Len(a))
       IN  BigTrim(BigDivLimbFrom(upper, Len(upper), 0, 2^(k % 15)))

BigBitLength(a) ==
  IF a = <<>> THEN 0
  ELSE 15 * (Len(a) - 1) + (CHOOSE k \in 1..15 : 2^(k - 1) <= a[Len(a)] /\ a[Len(a)] < 2^k)

BigIsOdd(a) == a # <<>> /\ a[1] % 2 = 1

\* floor(cur / d) for cur < d * LimbBase, where the top limb of d is at least
\* LimbBase / 2: the estimate from the leading limbs is at most 2 too large
BigQuotientLimb(cur, d) ==
  IF BigCmp(cur, d) < 0 THEN 0
  ELSE LET n == Len(d)
           lead == (IF Len(cur) > n THEN cur[n + 1] ELSE 0) * LimbBase + cur[n]
           estimate == IF lead \div d[n] > LimbBase - 1 THEN LimbBase - 1 ELSE lead \div d[n]
       IN  IF BigCmp(BigMulLimb(d, estimate, 0), cur) <= 0 THEN estimate
           ELSE IF BigCmp(BigMulLimb(d, estimate - 1, 0), cur) <= 0 THEN estimate - 1
           ELSE estimate - 2

\* long division of the limbs i, i-1, ..., 1 of a by d, with rem carried in
\* from the limbs above
RECURSIVE BigDivFrom(_, _, _, _)
BigDivFrom(a, i, rem, d) ==
  IF i = 0 THEN [quotient |-> <<>>, rem |-> rem]
  ELSE LET cur == BigTrim(<<a[i]>> \o rem)
           q == BigQuotientLimb(cur, d)
           below == BigDivFrom(a, i - 1, BigSub(cur, BigMulLimb(d, q, 0)), d)
       IN  [quotient |-> below.quotient \o <<q>>, rem |-> below.rem]

\* floor(a / d) and a mod d, for d as in BigQuotientLimb
BigDivMod(a, d) ==
  LET r == BigDivFrom(a, Len(a), <<>>, d)
  IN  [quotient |-> BigTrim(r.quotient), rem |-> r.rem]

F64Zero == [sign |-> 0, mant |-> <<>>, exp |-> 0]

F64IsZero(x) == x.mant = <<>>

\* the binary64 nearest to (-1)^sign * (n + f) * 2^exp, where 0 <= f < 1 and
\* inexact says f > 0 (only with n of more than 53 bits): the bits of n below
\* the 53 leading ones are cut off, and what is cut decides the rounding
F64Round(sign, n, exp, inexact) ==
  LET Carried(r, e) ==
        IF BigBitLength(r) > MantissaBits
        THEN [sign |-> sign, mant |-> BigShiftRight(r, 1), exp |-> e + 1]
        ELSE [sign |-> sign, mant |-> r, exp |-> e]
      Rounded(q, c, e) ==
        Carried(IF c > 0 \/ (c = 0 /\ (inexact \/ BigIsOdd(q))) THEN BigAdd(q, <<1>>) ELSE q, e)
      Cut(k, q) ==
        Rounded(q, BigCmp(BigSub(n, BigShiftLeft(q, k)), BigShiftLeft(<<1>>, k - 1)), exp + k)
      Sized(len) ==
        IF len <= MantissaBits
        THEN [sign |-> sign, mant |-> BigShiftLeft(n, MantissaBits - len),
              exp |-> exp - (MantissaBits - len)]
        ELSE Cut(len - MantissaBits, BigShiftRight(n, len - MantissaBits))
  IN  IF n = <<>> THEN F64Zero ELSE Sized(BigBitLength(n))

\* an integer as a number (exact below 2^53)
F64FromInt(i) ==
  F64Round(IF i < 0 THEN 1 ELSE 0, BigFromInt(IF i < 0 THEN -i ELSE i), 0, FALSE)

F64Neg(x) == IF F64IsZero(x) THEN x ELSE [x EXCEPT !.sign = 1 - @]

\* -1, 0 or 1: the order of the magnitudes
F64CmpMagnitude(x, y) ==
  IF F64IsZero(x) THEN (IF F64IsZero(y) THEN 0 ELSE -1)
  ELSE IF F64IsZero(y) THEN 1
  ELSE IF x.exp < y.exp THEN -1
  ELSE IF x.exp > y.exp THEN 1
  ELSE BigCmp(x.mant, y.mant)

\* x < y
F64Lt(x, y) ==
  IF x.sign = 1 /\ y.sign = 0 THEN ~(F64IsZero(x) /\ F64IsZero(y))
  ELSE IF x.sign = 0 /\ y.sign = 1 THEN FALSE
  ELSE IF x.sign = 0 THEN F64CmpMagnitude(x, y) < 0
  ELSE F64CmpMagnitude(x, y) > 0

\* x + y.  A term more than 64 binary places below the other does not reach
\* the rounding of the sum.
F64Add(x, y) ==
  LET Aligned(hi, lo, nhi, c) ==
        IF hi.sign = lo.sign THEN F64Round(hi.sign, BigAdd(nhi, lo.mant), lo.exp, FALSE)
        ELSE IF c = 0 THEN F64Zero
        ELSE IF c > 0 THEN F64Round(hi.sign, BigSub(nhi, lo.mant), lo.exp, FALSE)
        ELSE F64Round(lo.sign, BigSub(lo.mant, nhi), lo.exp, FALSE)
      Shifted(hi, lo, nhi) == Aligned(hi, lo, nhi, BigCmp(nhi, lo.mant))
      Ordered(hi, lo) ==
        IF hi.exp - lo.exp > 64 THEN hi
        ELSE Shifted(hi, lo, BigShiftLeft(hi.mant, hi.exp - lo.exp))
  IN  IF F64IsZero(x) THEN y
      ELSE IF F64IsZero(y) THEN x
      ELSE IF x.exp >= y.exp THEN Ordered(x, y) ELSE Ordered(y, x)

F64Sub(x, y) == F64Add(x, F64Neg(y))

F64Mul(x, y) ==
  IF F64IsZero(x) \/ F64IsZero(y) THEN F64Zero
  ELSE F64Round((x.sign + y.sign) % 2, BigMul(x.mant, y.mant), x.exp + y.exp, FALSE)

\* x / y for y # 0: 57 or 58 bits of the quotient of the mantissas, and
\* whether anything is left below them
F64Div(x, y) ==
  IF F64IsZero(x) THEN F64Zero
  ELSE LET d == BigDivMod(BigShiftLeft(x.mant, 64), BigShiftLeft(y.mant, 7))
       IN  F64Round((x.sign + y.sign) % 2, d.quotient, x.exp - y.exp - 57, d.rem # <<>>)

(***************************************************************************)
(* ClockSynchronizer                                                       *)
(***************************************************************************)
processNoiseOffset == 100
processNoiseDrift == 1
measurementNoise == 10000
MIN_MEASUREMENTS == 3
MAX_OFFSET_UNCERTAINTY == 2000
MicrosPerSecond == 1000000

\* the state of a ClockSynchronizer after construction and after reset():
\* offsetVariance 1e12, driftVariance 1e6
NewClock ==
  [offset |-> F64Zero,
   drift |-> F64Zero,
   offsetVariance |-> F64Mul(F64FromInt(MicrosPerSecond), F64FromInt(MicrosPerSecond)),
   driftVariance |-> F64FromInt(MicrosPerSecond),
   covariance |-> F64Zero,
   lastUpdateTime |-> 0,
   measurementCount |-> 0]

\* a reset() that forgets lastUpdateTime
resetKeepingTime(c) == [NewClock EXCEPT !.lastUpdateTime = c.lastUpdateTime]

reset(c) == NewClock

\* get offsetUncertainty() < limit.  Math.sqrt is monotone and correctly
\* rounded, and the square root of the largest binary64 below limit^2 is
\* rounded to a value below limit (for limit = 2000), so that
\* Math.sqrt(v) < limit exactly when v < limit^2.
offsetUncertaintyBelow(c, limit) ==
  F64Lt(c.offsetVariance, F64FromInt(limit * limit))

\* a getter that looks at the uncertainty alone
isConvergedIgnoringCount(c) ==
  offsetUncertaintyBelow(c, MAX_OFFSET_UNCERTAINTY)

isConverged(c) ==
  /\ c.measurementCount >= MIN_MEASUREMENTS
  /\ offsetUncertaintyBelow(c, MAX_OFFSET_UNCERTAINTY)

\* an offset taken from the way to the server alone
measuredOffsetOneWay(t1, t2, t3, t4) ==
  F64Div(F64FromInt(t2 - t1), F64FromInt(2))

\* ((t2 - t1) + (t3 - t4)) / 2
measuredOffsetOf(t1, t2, t3, t4) ==
  F64Div(F64FromInt((t2 - t1) + (t3 - t4)), F64FromInt(2))

\* (t4 - t1) - (t3 - t2)
rttOf(t1, t2, t3, t4) == F64FromInt((t4 - t1) - (t3 - t2))

\* a first measurement that leaves the offset alone
firstMeasurementKeepingOffset(c, measuredOffset, t4) ==
  [c EXCEPT !.lastUpdateTime = t4, !.measurementCount = 1]

\* the branch of the first measurement
firstMeasurement(c, measuredOffset, t4) ==
  [c EXCEPT !.offset = measuredOffset, !.lastUpdateTime = t4, !.measurementCount = 1]

\* an update that keeps the predicted variance
predictedOffsetVariance(k0, p00) == p00

\* (1 - k0) * p00, set to 1 when negative
updatedOffsetVariance(k0, p00) ==
  LET NonNegative(v) == IF F64Lt(v, F64Zero) THEN F64FromInt(1) ELSE v
  IN  NonNegative(F64Mul(F64Sub(F64FromInt(1), k0), p00))

\* a value is a binary64 number
IsF64(x) == x.sign \in {0, 1} /\ x.exp \in Int

\* the predict and update steps of the Kalman filter, for dt > 0.  The
\* values are computed in the order of the statements of the code, each one
\* before the next uses it.
kalmanUpdate(c, measuredOffset, rtt, dt, t4) ==
  LET NonNegative(v, floor) == IF F64Lt(v, F64Zero) THEN floor ELSE v
      Updated(newOffset, newDrift, newOffsetVariance, newCovariance, newDriftVariance) ==
        IF /\ IsF64(newOffset) /\ IsF64(newDrift) /\ IsF64(newOffsetVariance)
           /\ IsF64(newCovariance) /\ IsF64(newDriftVariance)
        THEN [offset |-> newOffset,
              drift |-> newDrift,
              offsetVariance |-> newOffsetVariance,
              covariance |-> newCovariance,
              driftVariance |-> newDriftVariance,
              lastUpdateTime |-> t4,
              measurementCount |-> c.measurementCount + 1]
        ELSE c
      Gained(predictedOffset, predictedDrift, p00, p01, p11, innovation, k0, k1) ==
        IF IsF64(k0) /\ IsF64(k1)
        THEN Updated(F64Add(predictedOffset, F64Mul(k0, innovation)),
                     F64Add(predictedDrift, F64Mul(k1, innovation)),
                     updatedOffsetVariance(k0, p00),
                     F64Mul(F64Sub(F64FromInt(1), k0), p01),
                     NonNegative(F64Sub(p11, F64Mul(k1, p01)),
                                 F64Div(F64FromInt(1), F64FromInt(100))))
        ELSE c
      Innovated(predictedOffset, predictedDrift, p00, p01, p11, innovation, innovationVariance) ==
        IF IsF64(innovation) /\ IsF64(innovationVariance)
        THEN Gained(predictedOffset, predictedDrift, p00, p01, p11, innovation,
                    F64Div(p00, innovationVariance), F64Div(p01, innovationVariance))
        ELSE c
      Predicted(predictedOffset, predictedDrift, p00, p01, p11, adaptiveMeasurementNoise) ==
        IF /\ IsF64(predictedOffset) /\ IsF64(p00) /\ IsF64(p01) /\ IsF64(p11)
           /\ IsF64(adaptiveMeasurementNoise)
        THEN Innovated(predictedOffset, predictedDrift, p00, p01, p11,
                       F64Sub(measuredOffset, predictedOffset),
                       F64Add(p00, adaptiveMeasurementNoise))
        ELSE c
  IN  IF IsF64(measuredOffset) /\ IsF64(rtt) /\ IsF64(dt)
      THEN Predicted(F64Add(c.offset, F64Mul(c.drift, dt)),
                     c.drift,
                     F64Add(F64Add(F64Add(c.offsetVariance,
                                          F64Mul(F64Mul(F64FromInt(2), c.covariance), dt)),
                                   F64Mul(F64Mul(c.driftVariance, dt), dt)),
                            F64Mul(F64FromInt(processNoiseOffset), dt)),
                     F64Add(c.covariance, F64Mul(c.driftVariance, dt)),
                     F64Add(c.driftVariance, F64Mul(F64FromInt(processNoiseDrift), dt)),
                     F64Add(F64FromInt(measurementNoise),
                            F64Div(F64Mul(rtt, rtt), F64FromInt(4))))
      ELSE c

\* a processMeasurement that does not look at the time delta
processMeasurementAnyDelta(c, t1, t2, t3, t4) ==
  IF c.measurementCount = 0
  THEN firstMeasurement(c, measuredOffsetOf(t1, t2, t3, t4), t4)
  ELSE kalmanUpdate(c, measuredOffsetOf(t1, t2, t3, t4), rttOf(t1, t2, t3, t4),
                    F64Div(F64FromInt(t4 - c.lastUpdateTime), F64FromInt(MicrosPerSecond)),
                    t4)

processMeasurement(c, t1, t2, t3, t4) ==
  LET Delta(dt) ==
        IF ~F64Lt(F64Zero, dt)
        THEN c
        ELSE kalmanUpdate(c, measuredOffsetOf(t1, t2, t3, t4), rttOf(t1, t2, t3, t4), dt, t4)
  IN  IF c.measurementCount = 0
      THEN firstMeasurement(c, measuredOffsetOf(t1, t2, t3, t4), t4)
      ELSE Delta(F64Div(F64FromInt(t4 - c.lastUpdateTime), F64FromInt(MicrosPerSecond)))

(***************************************************************************)
(* State                                                                   *)
(***************************************************************************)
VARIABLES
  \* --- CalibrationSession fields
  config,            \* this.config (clickIntervalMs, totalClicks, frequencies)
  isRunning,         \* this.isRunning
  detections,        \* this.detections
  eventCallback,     \* this.eventCallback: 0 (null) or the start() call that set it
  syncClient,        \* this.syncClient: 0 (null) or the client created by that start()
  audioDetector,     \* this.audioDetector: 0 (null) or the detector created by that start()
  audioContext,      \* this.audioContext: 0 (null) or the context created by that start()
  audioSource,       \* this.audioSource: 0 (null) or the source created by that start()
  useClockSync,      \* this.useClockSync
  \* --- the start() calls and the objects each of them creates
  nextRun,           \* number of the next accepted start() call
  pc,                \* pc[r]: where the r-th start() call is suspended
  client,            \* client[r]: the SendspinSyncClient created by start() r
  detector,          \* detector[r]: the AudioDetector created by start() r
  ctx,               \* ctx[r]: the playback AudioContext created by start() r
  source,            \* source[r]: the AudioBufferSourceNode created by start() r
  delay,             \* delay[r]: the 500 ms setTimeout of start() r
  timer,             \* timer[r]: the auto-stop setTimeout armed by start() r
  pending,           \* the pending setTimeout calls, in the order they were made
  \* --- what the callbacks have observed
  events,            \* events[r][type]: events delivered to the callback of start() r
  lastResult,        \* lastResult[r]: data of the last 'completed' event of callback r
  completedBy,       \* completedBy[r]: the timer whose firing completed run r (0: none)
  stoppedRun,        \* stoppedRun[r]: "no", or the phase in which stop() ended run r
  reachedListening,  \* reachedListening[r]: start() r got past startListening
  awaited,           \* awaited[r]: how each promise start() r awaits has settled
  playback,          \* playback[r]: data of the 'playback_started' event of start() r
  startResult,       \* how the most recent start() call was answered
  \* --- inputs and outputs of the pure functions (SpecMatch)
  mPhase,            \* "input", "pairs", "matched", "aggregated"
  mConfig,           \* the configuration the schedule is generated from
  mDetections,       \* the detections given to matchDetections
  mShift,            \* <<c>> when the detections are the schedule delayed by c, else <<>>
  mPairs,            \* the matched pairs given to calculateAverageOffset
  mResult,           \* what calculateAverageOffset returned
  \* --- the clock synchronizer and the sync clients (SpecClock, SpecSync)
  clock,             \* the fields of the ClockSynchronizer singleton
  samples,           \* the exchanges given to processMeasurement since the last reset()
  syncState,         \* syncState[c]: this.state of SendspinSyncClient c
  fresh,             \* a ClockSynchronizer constructed at the last reset() and given the same exchanges
  resetCalls,        \* calls of reset() so far
  \* --- the clock-sync phase of start() (SpecConnect)
  conn,              \* the sync client of one session: its socket, promises and timers
  \* --- the Music Assistant client (SpecReconnect)
  ma,                \* the MAWebSocketClient: its socket, its reconnect counter and timer
  \* --- the audio detector (SpecDetector)
  det,               \* the AudioDetector: its clock, lastDetectionTime and emitted detections
  \* --- pure functions applied to bounded inputs (SpecPush, SpecClicks, SpecWav)
  fnIn,              \* the input of the function
  fnOut              \* what it returned, "none" before the call

\* everything of the session but the answer to the last start() call
runVars ==
  <<config, isRunning, detections, eventCallback, syncClient, audioDetector,
    audioContext, audioSource, useClockSync, nextRun, pc, client, detector,
    ctx, source, delay, timer, pending, events, lastResult, completedBy,
    stoppedRun, reachedListening, awaited, playback>>

sessionVars == <<runVars, startResult>>

matchVars == <<mPhase, mConfig, mDetections, mShift, mPairs, mResult>>

clockVars == <<clock, samples, syncState, fresh, resetCalls>>

partVars == <<conn, ma, det, fnIn, fnOut>>

vars == <<sessionVars, matchVars, clockVars, partVars>>

(***************************************************************************)
(* SpecMatch: matchDetections and calculateAverageOffset on bounded inputs *)
(***************************************************************************)
NoShift == <<>>
NoResult == [offsetMs |-> RatInt(-1), confidence |-> ConfZero, stdDevSq |-> RatInt(-1)]

\* timestamps and frequencies of arbitrary detections
MatchTimestamps == {0, 100, 250, 1000}
MatchFrequencies == {500, 1100, 4000}
\* the constant delays c of the shifted schedules
ShiftValues == {0, 10, 1500}
\* the differences detectedTime - expectedTime of directly given pairs
PairDiffs == {10, 500}

MatchIdle ==
  /\ mPhase = "input"
  /\ mDetections = <<>>
  /\ mShift = NoShift
  /\ mPairs = <<>>
  /\ mResult = NoResult

\* one more arbitrary detection
PushDetection(ts, f) ==
  /\ mPhase = "input"
  /\ mShift = NoShift
  /\ Len(mDetections) < MaxDetLen
  /\ mDetections' = Append(mDetections, [timestamp |-> ts, frequency |-> f])
  /\ UNCHANGED <<mPhase, mConfig, mShift, mPairs, mResult>>
  /\ UNCHANGED <<sessionVars, clockVars, partVars>>

\* exactly N detections in arrival order, detection i with the frequency of
\* click i and the timestamp expectedTime[i] + c
ShiftedSchedule(cfg, c) ==
  LET expectedClicks == getClickTimestamps(cfg)
  IN  [i \in DOMAIN expectedClicks |->
         [timestamp |-> expectedClicks[i].time + c,
          frequency |-> expectedClicks[i].frequency]]

FeedShifted(c) ==
  /\ mPhase = "input"
  /\ mShift = NoShift
  /\ mDetections = <<>>
  /\ mDetections' = ShiftedSchedule(mConfig, c)
  /\ mShift' = <<c>>
  /\ UNCHANGED <<mPhase, mConfig, mPairs, mResult>>
  /\ UNCHANGED <<sessionVars, clockVars, partVars>>

\* matchDetections() on the session's schedule and the detections
Match ==
  /\ mPhase = "input"
  /\ mPairs' = matchDetections(getClickTimestamps(mConfig), mDetections)
  /\ mPhase' = "matched"
  /\ UNCHANGED <<mConfig, mDetections, mShift, mResult>>
  /\ UNCHANGED <<sessionVars, clockVars, partVars>>

\* one more matched pair given directly, pair k on the k-th second
PushPair(diff) ==
  /\ mPhase \in {"input", "pairs"}
  /\ mShift = NoShift
  /\ mDetections = <<>>
  /\ Len(mPairs) < MaxPairs
  /\ mPairs' = Append(mPairs,
                      [expectedTime |-> Len(mPairs) * 1000,
                       detectedTime |-> Len(mPairs) * 1000 + diff,
                       index |-> Len(mPairs) + 1, detection |-> Len(mPairs) + 1])
  /\ mPhase' = "pairs"
  /\ UNCHANGED <<mConfig, mDetections, mShift, mResult>>
  /\ UNCHANGED <<sessionVars, clockVars, partVars>>

\* calculateAverageOffset() on the matched pairs
Aggregate ==
  /\ mPhase \in {"pairs", "matched"}
  /\ mResult' = calculateAverageOffset(mPairs)
  /\ mPhase' = "aggregated"
  /\ UNCHANGED <<mConfig, mDetections, mShift, mPairs>>
  /\ UNCHANGED <<sessionVars, clockVars, partVars>>

NextMatch ==
  \/ \E ts \in MatchTimestamps, f \in MatchFrequencies : PushDetection(ts, f)
  \/ \E c \in ShiftValues : FeedShifted(c)
  \/ Match
  \/ \E diff \in PairDiffs : PushPair(diff)
  \/ Aggregate

(***************************************************************************)
(* Spec: the CalibrationSession object                                     *)
(***************************************************************************)
\* accepted start() calls on the one session object under Spec; SpecRestart
\* follows one more
MaxRuns == 1
\* detections recorded during one run
MaxDetections == 1

\* AudioDetector: minimum gap between two detections
minClickGap == 500
\* start(): delay between startListening and playback
PrePlaybackDelayMs == 500
\* start(): slack added to the track duration for the auto-stop timer
StartupSlackMs == 5000

Runs == 1..(MaxRuns + 1)

\* SendspinSyncClient objects alive at once, one per calibration session
Clients == 1..2

\* the configuration of the session: the default track cut to one click
SessionConfig ==
  [clickIntervalMs |-> 1000, totalClicks |-> 1,
   frequencies |-> <<500, 1000, 2000, 3000>>]

\* frequencies the detector reports to the session, and the readings of its
\* clock (performance.now() - startTime) at which it reports them
SessionFrequencies == {500, 1000}
SessionTimestamps == {500, 1000, 1510}

EventTypes ==
  {"clock_syncing", "clock_synced_ok", "clock_synced_fail", "started",
   "playback_started_ma", "playback_started_local", "click_detected",
   "progress", "completed", "error"}

NoEvents == [t \in EventTypes |-> 0]

NoCalibrationResult ==
  [offsetMs |-> RatInt(0), confidence |-> ConfZero,
   detectedClicks |-> 0, totalClicks |-> 0]

\* the promises start() awaits, none of them created yet
NothingAwaited ==
  [connect |-> "none", waitForSync |-> "none", initialize |-> "none",
   playMedia |-> "none"]

\* no 'playback_started' event yet
NoPlayback == [method |-> "none", clockSynced |-> FALSE]

\* setTimeout(callback, ms): a timer fires after every timer that was set
\* before it with a delay no longer than its own
SetTimeout(queue, kind, r, ms) == Append(queue, [kind |-> kind, run |-> r, ms |-> ms])

Position(queue, kind, r) ==
  CHOOSE i \in DOMAIN queue : queue[i].kind = kind /\ queue[i].run = r

MayFire(queue, kind, r) ==
  /\ \E i \in DOMAIN queue : queue[i].kind = kind /\ queue[i].run = r
  /\ \A j \in 1..(Position(queue, kind, r) - 1) :
       queue[j].ms > queue[Position(queue, kind, r)].ms

Remove(queue, kind, r) ==
  SelectSeq(queue, LAMBDA t : ~(t.kind = kind /\ t.run = r))

\* new AudioDetector(): nothing acquired, not listening
NewDetector ==
  [mediaStream |-> "null", audioContext |-> "null", isListening |-> FALSE,
   lastDetectionTime |-> 0]

\* emit(): this.eventCallback?.(event)
Emit(ev, cb, type) ==
  IF cb = 0 THEN ev ELSE [ev EXCEPT ![cb][type] = @ + 1]

\* AudioDetector.stopListening
stopListening(d) == [d EXCEPT !.isListening = FALSE]

\* a dispose() that only stops listening
disposeKeepingDevice(d) == stopListening(d)

\* AudioDetector.dispose: stop listening, stop the tracks of the stream and
\* close the context, when they exist
dispose(d) ==
  [stopListening(d) EXCEPT
     !.mediaStream = IF @ = "live" THEN "stopped" ELSE @,
     !.audioContext = IF @ = "open" THEN "closed" ELSE @]

\* AudioDetector.startListening throws unless both are set
Initialized(d) == d.mediaStream = "live" /\ d.audioContext = "open"

startListening(d) ==
  [d EXCEPT !.isListening = TRUE, !.lastDetectionTime = 0]

\* SendspinSyncClient.disconnect
disconnect(c) == "disconnected"

\* CalibrationSession.cleanup, applied to the given values of the fields and
\* of the objects they refer to
cleanup(aSource, aContext, aDetector, aClient, sources, contexts, detectors, clients) ==
  /\ isRunning' = FALSE
  /\ source' = IF aSource # 0 THEN [sources EXCEPT ![aSource] = "stopped"] ELSE sources
  /\ audioSource' = 0
  /\ ctx' = IF aContext # 0 /\ contexts[aContext] # "closed"
            THEN [contexts EXCEPT ![aContext] = "closed"] ELSE contexts
  /\ audioContext' = 0
  /\ detector' = IF aDetector # 0
                 THEN [detectors EXCEPT ![aDetector] = dispose(@)] ELSE detectors
  /\ audioDetector' = 0
  /\ client' = IF aClient # 0
               THEN [clients EXCEPT ![aClient] = disconnect(@)] ELSE clients
  /\ syncClient' = 0

\* a catch block that emits 'error' and rethrows without cleanup
FailWithoutCleanup(r, ev, aSource, aContext, aDetector, aClient, sources, contexts, detectors, clients) ==
  /\ events' = Emit(ev, eventCallback, "error")
  /\ UNCHANGED <<isRunning, source, audioSource, ctx, audioContext, detector,
                 audioDetector, client, syncClient>>
  /\ pc' = [pc EXCEPT ![r] = "rejected"]

\* the catch block of start(): emit 'error', cleanup, rethrow
Fail(r, ev, aSource, aContext, aDetector, aClient, sources, contexts, detectors, clients) ==
  /\ events' = Emit(ev, eventCallback, "error")
  /\ cleanup(aSource, aContext, aDetector, aClient, sources, contexts, detectors, clients)
  /\ pc' = [pc EXCEPT ![r] = "rejected"]

\* the singleton as the module creates it, and no client connected
ClockIdle ==
  /\ clock = NewClock
  /\ samples = <<>>
  /\ syncState = [c \in Clients |-> "disconnected"]
  /\ fresh = NewClock
  /\ resetCalls = 0

\* nothing else has been called
\* no sync client created yet
NoSyncClient ==
  [state |-> "disconnected", socket |-> "none", errored |-> FALSE,
   connect |-> "none", timeout |-> FALSE, syncLoop |-> FALSE,
   converged |-> FALSE, wait |-> "none", polls |-> 0, phase |-> "idle",
   old |-> <<>>, connects |-> 0]

\* disconnect() of the sync client: the socket it held, if still live, goes
\* to the sockets it no longer holds, with its handlers and its timer
disconnectSync(c) ==
  [c EXCEPT !.syncLoop = FALSE, !.state = "disconnected", !.socket = "none",
            !.errored = FALSE, !.timeout = FALSE,
            !.old = IF c.socket \in {"connecting", "open"}
                    THEN Append(@, [errorDue |-> c.socket = "connecting",
                                    timeout |-> c.timeout])
                    ELSE @]

\* maClient as constructed: ws is an index into sockets, 0 for null;
\* retries and lastDelay record the reconnect attempts scheduled since the
\* last connect() of the user or the last server info
NoMAClient ==
  [sockets |-> <<>>, ws |-> 0, initialized |-> FALSE, reconnectAttempts |-> 0,
   shouldReconnect |-> TRUE, serverUrl |-> FALSE, timers |-> <<>>,
   retries |-> 0, lastDelay |-> 0, calls |-> <<>>]

\* an AudioDetector as constructed; now is performance.now(), chunks the
\* audio callbacks so far, emitted the detections handed to the callback
\* since startListening and rejected the time of the last onset refused for
\* its frequency.  Levels are in thousandths.
NoListener ==
  [isListening |-> FALSE, now |-> 0, startTime |-> 0, lastDetectionTime |-> 0,
   noiseFloor |-> 0, chunks |-> 0, emitted |-> <<>>, rejected |-> -1]

PartsIdle ==
  /\ conn = NoSyncClient
  /\ ma = NoMAClient
  /\ det = NoListener
  /\ fnIn = [op |-> "none"]
  /\ fnOut = [op |-> "none"]

Init ==
  /\ config = SessionConfig
  /\ isRunning = FALSE
  /\ detections = <<>>
  /\ eventCallback = 0
  /\ syncClient = 0
  /\ audioDetector = 0
  /\ audioContext = 0
  /\ audioSource = 0
  /\ useClockSync = TRUE
  /\ nextRun = 1
  /\ pc = [r \in Runs |-> "idle"]
  /\ client = [r \in Runs |-> "none"]
  /\ detector = [r \in Runs |-> NewDetector]
  /\ ctx = [r \in Runs |-> "none"]
  /\ source = [r \in Runs |-> "none"]
  /\ delay = [r \in Runs |-> "unarmed"]
  /\ timer = [r \in Runs |-> "unarmed"]
  /\ pending = <<>>
  /\ events = [r \in Runs |-> NoEvents]
  /\ lastResult = [r \in Runs |-> NoCalibrationResult]
  /\ completedBy = [r \in Runs |-> 0]
  /\ stoppedRun = [r \in Runs |-> "no"]
  /\ reachedListening = [r \in Runs |-> FALSE]
  /\ awaited = [r \in Runs |-> NothingAwaited]
  /\ playback = [r \in Runs |-> NoPlayback]
  /\ startResult = "none"
  /\ ClockIdle
  /\ PartsIdle
  /\ MatchIdle
  /\ mConfig = DefaultConfig

InitMatch ==
  /\ config = SessionConfig
  /\ isRunning = FALSE
  /\ detections = <<>>
  /\ eventCallback = 0
  /\ syncClient = 0
  /\ audioDetector = 0
  /\ audioContext = 0
  /\ audioSource = 0
  /\ useClockSync = TRUE
  /\ nextRun = 1
  /\ pc = [r \in Runs |-> "idle"]
  /\ client = [r \in Runs |-> "none"]
  /\ detector = [r \in Runs |-> NewDetector]
  /\ ctx = [r \in Runs |-> "none"]
  /\ source = [r \in Runs |-> "none"]
  /\ delay = [r \in Runs |-> "unarmed"]
  /\ timer = [r \in Runs |-> "unarmed"]
  /\ pending = <<>>
  /\ events = [r \in Runs |-> NoEvents]
  /\ lastResult = [r \in Runs |-> NoCalibrationResult]
  /\ completedBy = [r \in Runs |-> 0]
  /\ stoppedRun = [r \in Runs |-> "no"]
  /\ reachedListening = [r \in Runs |-> FALSE]
  /\ awaited = [r \in Runs |-> NothingAwaited]
  /\ playback = [r \in Runs |-> NoPlayback]
  /\ startResult = "none"
  /\ ClockIdle
  /\ PartsIdle
  /\ MatchIdle
  /\ mConfig \in MatchConfigs

SpecMatch == InitMatch /\ [][NextMatch]_vars

(***************************************************************************)
(* Actions of the session                                                  *)
(***************************************************************************)
\* a start(callback) that does not look at isRunning
StartCallUnguarded ==
  /\ startResult' = "accepted"
  /\ awaited' = [awaited EXCEPT ![nextRun].connect = "pending"]
  /\ eventCallback' = nextRun
  /\ detections' = <<>>
  /\ isRunning' = TRUE
  /\ events' = Emit(events, nextRun, "clock_syncing")
  /\ syncClient' = nextRun
  /\ client' = [client EXCEPT ![nextRun] = "connecting"]
  /\ pc' = [pc EXCEPT ![nextRun] = "connect"]
  /\ nextRun' = nextRun + 1
  /\ UNCHANGED <<config, audioDetector, audioContext, audioSource,
                 useClockSync, detector, ctx, source, delay, timer, pending,
                 lastResult, completedBy, stoppedRun, reachedListening, playback>>
  /\ UNCHANGED <<matchVars, clockVars, partVars>>

\* start(callback): throws when a run is in progress; otherwise resets the
\* run state, emits 'clock_syncing', creates the sync client and suspends in
\* connect()
StartCall ==
  /\ IF isRunning
     THEN /\ startResult' = "already_running"
          /\ UNCHANGED runVars
     ELSE /\ startResult' = "accepted"
          /\ awaited' = [awaited EXCEPT ![nextRun].connect = "pending"]
          /\ UNCHANGED playback
          /\ eventCallback' = nextRun
          /\ detections' = <<>>
          /\ isRunning' = TRUE
          /\ events' = Emit(events, nextRun, "clock_syncing")
          /\ syncClient' = nextRun
          /\ client' = [client EXCEPT ![nextRun] = "connecting"]
          /\ pc' = [pc EXCEPT ![nextRun] = "connect"]
          /\ nextRun' = nextRun + 1
          /\ UNCHANGED <<config, audioDetector, audioContext, audioSource,
                         useClockSync, detector, ctx, source, delay, timer, pending,
                         lastResult, completedBy, stoppedRun, reachedListening>>
  /\ UNCHANGED <<matchVars, clockVars, partVars>>

\* the start() calls of Spec
Start ==
  /\ nextRun <= MaxRuns
  /\ StartCall

\* one more start() call (SpecRestart)
Restart ==
  /\ nextRun = MaxRuns + 1
  /\ StartCall

\* the session is listening: its detector has been started and not stopped
ListeningPhase ==
  /\ isRunning
  /\ audioDetector # 0
  /\ detector[audioDetector].isListening

\* stop(): cleanup when a run is in progress, nothing otherwise
Stop ==
  /\ IF isRunning
     THEN /\ cleanup(audioSource, audioContext, audioDetector, syncClient,
                     source, ctx, detector, client)
          /\ stoppedRun' = [stoppedRun EXCEPT ![eventCallback] =
                              IF ListeningPhase THEN "listening" ELSE "early"]
          /\ UNCHANGED <<config, detections, eventCallback, useClockSync,
                         nextRun, pc, delay, timer, pending, events, lastResult,
                         completedBy, reachedListening, awaited, playback,
                         startResult>>
     ELSE UNCHANGED sessionVars
  /\ UNCHANGED <<matchVars, clockVars, partVars>>

\* steps 2 of start(), reached from every outcome of the clock-sync step:
\* create the detector and suspend in its initialize()
BeginInitialize(r, ev, sync) ==
  /\ useClockSync' = sync
  /\ events' = Emit(ev, eventCallback, IF sync THEN "clock_synced_ok" ELSE "clock_synced_fail")
  /\ audioDetector' = r
  /\ pc' = [pc EXCEPT ![r] = "initialize"]

\* await syncClient.connect() resolves: the handshake is complete, start()
\* suspends in waitForSync(3000)
ConnectResolve(r) ==
  /\ pc[r] = "connect"
  /\ client[r] = "connecting"
  /\ client' = [client EXCEPT ![r] = "open"]
  /\ pc' = [pc EXCEPT ![r] = "waitSync"]
  /\ UNCHANGED <<config, isRunning, detections, eventCallback, syncClient,
                 audioDetector, audioContext, audioSource, useClockSync,
                 nextRun, detector, ctx, source, delay, timer, pending, events,
                 lastResult, completedBy, stoppedRun, reachedListening>>
  /\ awaited' = [awaited EXCEPT ![r].connect = "resolved",
                                 ![r].waitForSync = "pending"]
  /\ UNCHANGED <<playback, startResult>>
  /\ UNCHANGED <<matchVars, clockVars, partVars>>

\* await syncClient.connect() rejects (socket error, connection timeout, or
\* the socket was closed by disconnect()): the inner catch selects fallback
\* timing and start() goes on
ConnectReject(r) ==
  /\ pc[r] = "connect"
  /\ client' = [client EXCEPT ![r] = IF @ = "connecting" THEN "failed" ELSE @]
  /\ BeginInitialize(r, events, FALSE)
  /\ UNCHANGED <<config, isRunning, detections, eventCallback, syncClient,
                 audioContext, audioSource, nextRun, detector, ctx, source,
                 delay, timer, pending, lastResult, completedBy, stoppedRun,
                 reachedListening>>
  /\ awaited' = [awaited EXCEPT ![r].connect = "rejected",
                                 ![r].initialize = "pending"]
  /\ UNCHANGED <<playback, startResult>>
  /\ UNCHANGED <<matchVars, clockVars, partVars>>

\* await waitForSync(3000) resolves with synced.  Reading
\* this.syncClient.clock throws when the field is null, which the inner catch
\* turns into fallback timing.
WaitForSyncDone(r, synced) ==
  /\ pc[r] = "waitSync"
  /\ BeginInitialize(r, events, synced /\ syncClient # 0)
  /\ UNCHANGED <<config, isRunning, detections, eventCallback, syncClient,
                 audioContext, audioSource, nextRun, client, detector, ctx,
                 source, delay, timer, pending, lastResult, completedBy, stoppedRun,
                 reachedListening>>
  /\ awaited' = [awaited EXCEPT ![r].waitForSync = IF synced THEN "true" ELSE "false",
                                 ![r].initialize = "pending"]
  /\ UNCHANGED <<playback, startResult>>
  /\ UNCHANGED <<matchVars, clockVars, partVars>>

\* await audioDetector.initialize() resolves: detector r holds the microphone
\* stream and its context.  start() creates the playback context, emits
\* 'started' and calls this.audioDetector.startListening, which throws when
\* the field is null or refers to a detector that is not initialized.
InitializeResolve(r) ==
  /\ pc[r] = "initialize"
  /\ LET detectors == [detector EXCEPT ![r].mediaStream = "live",
                                       ![r].audioContext = "open"]
         contexts == [ctx EXCEPT ![r] = "running"]
         ev == Emit(events, eventCallback, "started")
     IN  IF audioDetector # 0 /\ Initialized(detectors[audioDetector])
         THEN /\ detector' = [detectors EXCEPT ![audioDetector] = startListening(@)]
              /\ ctx' = contexts
              /\ audioContext' = r
              /\ events' = ev
              /\ delay' = [delay EXCEPT ![r] = "armed"]
              /\ pending' = SetTimeout(pending, "delay", r, PrePlaybackDelayMs)
              /\ pc' = [pc EXCEPT ![r] = "delay"]
              /\ reachedListening' = [reachedListening EXCEPT ![r] = TRUE]
              /\ UNCHANGED <<isRunning, syncClient, audioDetector, audioSource,
                             client, source>>
         ELSE /\ Fail(r, ev, audioSource, r, audioDetector, syncClient,
                      source, contexts, detectors, client)
              /\ UNCHANGED <<delay, pending, reachedListening>>
  /\ UNCHANGED <<config, detections, eventCallback, useClockSync, nextRun,
                 timer, lastResult, completedBy, stoppedRun>>
  /\ awaited' = [awaited EXCEPT ![r].initialize = "resolved"]
  /\ UNCHANGED <<playback, startResult>>
  /\ UNCHANGED <<matchVars, clockVars, partVars>>

\* await audioDetector.initialize() rejects ('Microphone access denied'): the
\* catch block of start() emits 'error' and cleans up
InitializeReject(r) ==
  /\ pc[r] = "initialize"
  /\ Fail(r, events, audioSource, audioContext, audioDetector, syncClient,
          source, ctx, detector, client)
  /\ UNCHANGED <<config, detections, eventCallback, useClockSync, nextRun,
                 delay, timer, pending, lastResult, completedBy, stoppedRun,
                 reachedListening>>
  /\ awaited' = [awaited EXCEPT ![r].initialize = "rejected"]
  /\ UNCHANGED <<playback, startResult>>
  /\ UNCHANGED <<matchVars, clockVars, partVars>>

\* the 500 ms timer of start() fires: start() calls maClient.playMedia and
\* suspends in it
DelayElapsed(r) ==
  /\ pc[r] = "delay"
  /\ delay[r] = "armed"
  /\ MayFire(pending, "delay", r)
  /\ delay' = [delay EXCEPT ![r] = "fired"]
  /\ pending' = Remove(pending, "delay", r)
  /\ pc' = [pc EXCEPT ![r] = "playMedia"]
  /\ UNCHANGED <<config, isRunning, detections, eventCallback, syncClient,
                 audioDetector, audioContext, audioSource, useClockSync,
                 nextRun, client, detector, ctx, source, timer, events,
                 lastResult, completedBy, stoppedRun, reachedListening>>
  /\ awaited' = [awaited EXCEPT ![r].playMedia = "pending"]
  /\ UNCHANGED <<playback, startResult>>
  /\ UNCHANGED <<matchVars, clockVars, partVars>>

\* the auto-stop delay: totalClicks * clickIntervalMs + 5000
totalDurationMs == config.totalClicks * config.clickIntervalMs + StartupSlackMs

\* await maClient.playMedia() resolves: 'playback_started' and the auto-stop
\* timer
PlayMediaResolve(r) ==
  /\ pc[r] = "playMedia"
  /\ events' = Emit(events, eventCallback, "playback_started_ma")
  /\ timer' = [timer EXCEPT ![r] = "armed"]
  /\ pending' = SetTimeout(pending, "deadline", r, totalDurationMs)
  /\ pc' = [pc EXCEPT ![r] = "resolved"]
  /\ UNCHANGED <<config, isRunning, detections, eventCallback, syncClient,
                 audioDetector, audioContext, audioSource, useClockSync,
                 nextRun, client, detector, ctx, source, delay, lastResult,
                 completedBy, stoppedRun, reachedListening>>
  /\ awaited' = [awaited EXCEPT ![r].playMedia = "resolved"]
  /\ playback' = [playback EXCEPT ![r] = [method |-> "music_assistant",
                                           clockSynced |-> useClockSync]]
  /\ UNCHANGED startResult
  /\ UNCHANGED <<matchVars, clockVars, partVars>>

\* await maClient.playMedia() rejects: local playback on this.audioContext,
\* which throws inside the catch block when the field is null
PlayMediaReject(r) ==
  /\ pc[r] = "playMedia"
  /\ IF audioContext # 0
     THEN /\ source' = [source EXCEPT ![r] = "playing"]
          /\ audioSource' = r
          /\ events' = Emit(events, eventCallback, "playback_started_local")
          /\ playback' = [playback EXCEPT ![r] = [method |-> "local",
                                                   clockSynced |-> useClockSync]]
          /\ timer' = [timer EXCEPT ![r] = "armed"]
          /\ pending' = SetTimeout(pending, "deadline", r, totalDurationMs)
          /\ pc' = [pc EXCEPT ![r] = "resolved"]
          /\ UNCHANGED <<isRunning, syncClient, audioDetector, audioContext,
                         client, detector, ctx>>
     ELSE /\ Fail(r, events, audioSource, audioContext, audioDetector, syncClient,
                  source, ctx, detector, client)
          /\ UNCHANGED <<timer, pending, playback>>
  /\ UNCHANGED <<config, detections, eventCallback, useClockSync, nextRun,
                 delay, lastResult, completedBy, stoppedRun, reachedListening>>
  /\ awaited' = [awaited EXCEPT ![r].playMedia = "rejected"]
  /\ UNCHANGED startResult
  /\ UNCHANGED <<matchVars, clockVars, partVars>>

\* complete(), called by the auto-stop timer of start() r
complete(r) ==
  LET matchedDetections == matchDetections(getClickTimestamps(config), detections)
      average == calculateAverageOffset(matchedDetections)
      result == [offsetMs |-> average.offsetMs,
                 confidence |-> average.confidence,
                 detectedClicks |-> Len(detections),
                 totalClicks |-> config.totalClicks]
      detectors == IF audioDetector # 0
                   THEN [detector EXCEPT ![audioDetector] = stopListening(@)]
                   ELSE detector
  IN  /\ events' = Emit(events, eventCallback, "completed")
      /\ lastResult' = IF eventCallback # 0
                       THEN [lastResult EXCEPT ![eventCallback] = result]
                       ELSE lastResult
      /\ completedBy' = IF eventCallback # 0
                        THEN [completedBy EXCEPT ![eventCallback] = r]
                        ELSE completedBy
      /\ cleanup(audioSource, audioContext, audioDetector, syncClient,
                 source, ctx, detectors, client)

\* the auto-stop timer armed by start() r fires: complete() when isRunning
DeadlineTimer(r) ==
  /\ timer[r] = "armed"
  /\ MayFire(pending, "deadline", r)
  /\ timer' = [timer EXCEPT ![r] = "fired"]
  /\ pending' = Remove(pending, "deadline", r)
  /\ IF isRunning
     THEN complete(r)
     ELSE UNCHANGED <<isRunning, syncClient, audioDetector, audioContext,
                      audioSource, client, detector, ctx, source, events,
                      lastResult, completedBy>>
  /\ UNCHANGED <<config, detections, eventCallback, useClockSync, nextRun,
                 pc, delay, stoppedRun, reachedListening>>
  /\ UNCHANGED <<awaited, playback, startResult>>
  /\ UNCHANGED <<matchVars, clockVars, partVars>>

\* AudioDetector.processAudioChunk of detector d finds, when its clock reads
\* elapsed, an onset at an expected frequency f, no sooner than minClickGap
\* after the last one, and calls the detection callback: handleDetection
\* appends it and emits 'click_detected' and 'progress'
handleDetection(d, elapsed, f) ==
  /\ detector[d].isListening
  /\ ~(elapsed - detector[d].lastDetectionTime < minClickGap)
  /\ detector' = [detector EXCEPT ![d].lastDetectionTime = elapsed]
  /\ detections' = Append(detections, [timestamp |-> elapsed, frequency |-> f])
  /\ events' = Emit(Emit(events, eventCallback, "click_detected"),
                    eventCallback, "progress")
  /\ UNCHANGED <<config, isRunning, eventCallback, syncClient, audioDetector,
                 audioContext, audioSource, useClockSync, nextRun, pc, client,
                 ctx, source, delay, timer, pending, lastResult, completedBy,
                 stoppedRun, reachedListening>>
  /\ UNCHANGED <<awaited, playback, startResult>>
  /\ UNCHANGED <<matchVars, clockVars, partVars>>

Detection(d, elapsed, f) ==
  /\ Len(detections) < MaxDetections
  /\ handleDetection(d, elapsed, f)

Next ==
  \/ Start
  \/ Stop
  \/ \E r \in Runs : ConnectResolve(r)
  \/ \E r \in Runs : ConnectReject(r)
  \/ \E r \in Runs, synced \in BOOLEAN : WaitForSyncDone(r, synced)
  \/ \E r \in Runs : InitializeResolve(r)
  \/ \E r \in Runs : InitializeReject(r)
  \/ \E r \in Runs : DelayElapsed(r)
  \/ \E r \in Runs : PlayMediaResolve(r)
  \/ \E r \in Runs : PlayMediaReject(r)
  \/ \E r \in Runs : DeadlineTimer(r)
  \/ \E d \in Runs, elapsed \in SessionTimestamps, f \in SessionFrequencies :
       Detection(d, elapsed, f)

Spec == Init /\ [][Next]_vars

NextRestart == Next \/ Restart

SpecRestart == Init /\ [][NextRestart]_vars

(***************************************************************************)
(* Claims about matchDetections and calculateAverageOffset (SpecMatch)     *)
(***************************************************************************)
PairDiffsOf(pairs) ==
  [i \in DOMAIN pairs |-> pairs[i].detectedTime - pairs[i].expectedTime]

\* C1: in the pairs returned by matchDetections, for every list of
\* detections, no schedule index occurs in two pairs and no detection occurs
\* in two pairs: the pairing is one-to-one.
C1_PairingOneToOne ==
  mPhase = "matched" =>
    \A a, b \in DOMAIN mPairs :
      a # b => /\ mPairs[a].index # mPairs[b].index
               /\ mPairs[a].detection # mPairs[b].detection

\* C1 witness: matchDetections has run on a list in which a detection was
\* left unpaired although the entry consumed by another pair has its
\* frequency and lies within the match window of it.
C1_Witness ==
  /\ mPhase = "matched"
  /\ \E j \in DOMAIN mDetections, p \in DOMAIN mPairs :
       /\ \A q \in DOMAIN mPairs : mPairs[q].detection # j
       /\ IsCandidateReusing(getClickTimestamps(mConfig), mDetections[j],
                             mPairs[p].index,
                             EstimateOffset(getClickTimestamps(mConfig), mDetections, 1, 0),
                             {})

\* C2 (as claimed): when the detections are the N schedule entries delayed by
\* one constant c, detection i is paired with click i for every i, and
\* calculateAverageOffset returns offsetMs = c, stdDev = 0, confidence = 1.
C2_ShiftedScheduleRecovered ==
  (mPhase = "aggregated" /\ mShift # NoShift) =>
    /\ Len(mPairs) = NumClicks(mConfig)
    /\ \A i \in DOMAIN mPairs : mPairs[i].index = i /\ mPairs[i].detection = i
    /\ mResult.offsetMs = RatInt(mShift[1])
    /\ mResult.stdDevSq = RatInt(0)
    /\ mResult.confidence = ConfOne

\* C3 (as claimed): for pairs with differences [10,10,10,10,500] the 500 is
\* excluded: offsetMs = 10 and stdDev = 0.
C3_OutlierExcluded ==
  (mPhase = "aggregated" /\ PairDiffsOf(mPairs) = <<10, 10, 10, 10, 500>>) =>
    /\ mResult.offsetMs = RatInt(10)
    /\ mResult.stdDevSq = RatInt(0)

(***************************************************************************)
(* Claims about the session (Spec, SpecRestart)                            *)
(***************************************************************************)
\* nothing acquired by any start() call is still held
NoResourceHeld ==
  \A r \in Runs :
    /\ detector[r].mediaStream # "live"
    /\ detector[r].audioContext # "open"
    /\ ~detector[r].isListening
    /\ ctx[r] # "running"
    /\ source[r] # "playing"
    /\ client[r] \notin {"connecting", "open"}

\* every start() call has settled and no timer is pending
Settled ==
  /\ \A r \in Runs : pc[r] \in {"idle", "resolved", "rejected"}
  /\ pending = <<>>

\* C4: when the auto-stop timer fires on a running session whose detections
\* are empty or all unmatched, that step emits 'completed' and no 'error',
\* and the result is offsetMs = 0, confidence = 0 with the raw counts
\* detectedClicks and totalClicks.
C4_DeadlineWithoutMatchCompletes ==
  [][\A r \in Runs :
       ( /\ timer[r] = "armed"
         /\ timer'[r] = "fired"
         /\ isRunning
         /\ matchDetections(getClickTimestamps(config), detections) = <<>> )
       => /\ events'[eventCallback].completed = events[eventCallback].completed + 1
          /\ events'[eventCallback].error = events[eventCallback].error
          /\ lastResult'[eventCallback] =
               [offsetMs |-> RatInt(0), confidence |-> ConfZero,
                detectedClicks |-> Len(detections),
                totalClicks |-> config.totalClicks]]_vars

\* C4 witness: a run was completed by its timer after a detection that no
\* schedule entry matched.
C4_Witness ==
  \E r \in Runs :
    /\ events[r].completed = 1
    /\ completedBy[r] = r
    /\ lastResult[r].detectedClicks > 0
    /\ lastResult[r].confidence = ConfZero
    /\ matchDetections(getClickTimestamps(config), detections) = <<>>

\* C5 (as claimed): a listening run has observed fewer than totalClicks
\* detections and its deadline has not passed; it completes at once when
\* either ceases to hold.
C5_CompletesOnCountOrDeadline ==
  ListeningPhase =>
    /\ Len(detections) < config.totalClicks
    /\ timer[eventCallback] # "fired"

\* C6 (as claimed): a run that reached the listening phase and was not
\* stopped emits at most one 'completed', and once its auto-stop timer has
\* fired it has emitted exactly one and is no longer running.
C6_ListeningRunCompletesByDeadline ==
  \A r \in Runs :
    (reachedListening[r] /\ stoppedRun[r] = "no") =>
      /\ events[r].completed <= 1
      /\ timer[r] = "fired" =>
           /\ events[r].completed = 1
           /\ ~(isRunning /\ eventCallback = r)

\* C7: a stop() that takes effect in the listening phase leaves isRunning
\* false, the session's detector not listening with its stream stopped and
\* its context closed, the playback source stopped, the playback context
\* closed, the sync client disconnected and every field null; and no
\* 'completed' event reaches the callback of a run stopped so.
C7_StopWhileListeningReleases ==
  [][\A r \in Runs :
       /\ (stoppedRun[r] = "no" /\ stoppedRun'[r] = "listening") =>
            /\ ~isRunning'
            /\ ~detector'[audioDetector].isListening
            /\ detector'[audioDetector].mediaStream = "stopped"
            /\ detector'[audioDetector].audioContext = "closed"
            /\ audioSource # 0 => source'[audioSource] = "stopped"
            /\ audioContext # 0 => ctx'[audioContext] = "closed"
            /\ syncClient # 0 => client'[syncClient] = "disconnected"
            /\ audioDetector' = 0 /\ audioSource' = 0
            /\ audioContext' = 0 /\ syncClient' = 0
       /\ stoppedRun[r] = "listening" =>
            events'[r].completed = events[r].completed]_vars

\* C7 witness: a run was stopped while listening and its auto-stop timer
\* has fired since.
C7_Witness ==
  \E r \in Runs :
    /\ stoppedRun[r] = "listening"
    /\ timer[r] = "fired"
    /\ events[r].completed = 0

\* C8 (as claimed): once stop() has ended a run, and until the next start(),
\* no step appends a detection or emits 'click_detected' or 'progress'.
C8_NoDetectionAfterStop ==
  [][\A r \in Runs :
       (stoppedRun[r] # "no" /\ eventCallback = r /\ eventCallback' = r) =>
         /\ detections' = detections
         /\ events'[r].click_detected = events[r].click_detected
         /\ events'[r].progress = events[r].progress]_vars

\* C9 (as claimed): once every start() call has settled and every timer has
\* fired, nothing is held: no live microphone stream, no open context, no
\* playing source, no connected sync client.
C9_SettledHoldsNothing ==
  Settled => NoResourceHeld

\* C10 (as claimed): a run is completed only by the auto-stop timer that its
\* own start() armed, never by the timer of an earlier run.
C10_CompletedByOwnTimer ==
  \A r \in Runs : completedBy[r] \in {0, r}

\* the clock-sync step of start() r has just failed: connect() rejected or
\* waitForSync(3000) returned false
SyncStepFails(r) ==
  \/ awaited[r].connect = "pending" /\ awaited'[r].connect = "rejected"
  \/ awaited[r].waitForSync = "pending" /\ awaited'[r].waitForSync = "false"

\* the clock-sync step of start() r has failed
SyncStepFailed(r) ==
  awaited[r].connect = "rejected" \/ awaited[r].waitForSync = "false"

\* C11 (as claimed): when connect() rejects or waitForSync returns false,
\* that step emits no 'error' and exactly one 'clock_synced' with success =
\* false, sets useClockSync = false and goes on to the microphone
\* initialisation; and the 'playback_started' event that start() call emits
\* later carries clockSynced = false.
C11_SyncFailureFallsBack ==
  [][\A r \in Runs :
       /\ SyncStepFails(r) =>
            /\ \A q \in Runs : events'[q].error = events[q].error
            /\ events'[eventCallback].clock_synced_fail =
                 events[eventCallback].clock_synced_fail + 1
            /\ \A q \in Runs : events'[q].clock_synced_ok = events[q].clock_synced_ok
            /\ ~useClockSync'
            /\ awaited'[r].initialize = "pending"
       /\ (SyncStepFailed(r) /\ playback'[r] # playback[r]) =>
            ~playback'[r].clockSynced]_vars

\* C12: when initialize() of start() r rejects, that step emits 'error',
\* start() r rejects, isRunning is false (so the next start() is accepted),
\* the sync client of the session and that of start() r are disconnected and
\* no 'completed' is emitted; the auto-stop timer of start() r is never
\* armed, and the callback of start() r receives no 'completed' afterwards.
C12_MicrophoneFailureAborts ==
  [][\A r \in Runs :
       /\ (awaited[r].initialize = "pending" /\ awaited'[r].initialize = "rejected") =>
            /\ events'[eventCallback].error = events[eventCallback].error + 1
            /\ \A q \in Runs : events'[q].completed = events[q].completed
            /\ pc'[r] = "rejected"
            /\ ~isRunning'
            /\ syncClient' = 0
            /\ \A q \in Runs : client'[q] \notin {"connecting", "open"}
            /\ timer'[r] = "unarmed"
       /\ awaited[r].initialize = "rejected" =>
            /\ timer'[r] = "unarmed"
            /\ events'[r].completed = events[r].completed]_vars

\* C12 witness: the microphone failed in a run that was never stopped, and a
\* later start() on the same session was accepted.
C12_Witness ==
  /\ awaited[1].initialize = "rejected"
  /\ stoppedRun[1] = "no"
  /\ events[1].error = 1
  /\ pc[2] # "idle"

\* C13 (as claimed): when playMedia rejects, that step emits no 'error',
\* starts the local playback, emits 'playback_started' with method 'local'
\* and arms the auto-stop timer.
C13_PlayMediaFailureFallsBack ==
  [][\A r \in Runs :
       (awaited[r].playMedia = "pending" /\ awaited'[r].playMedia = "rejected") =>
         /\ \A q \in Runs : events'[q].error = events[q].error
         /\ source'[r] = "playing"
         /\ playback'[r].method = "local"
         /\ timer'[r] = "armed"]_vars

\* C14 (as claimed): the callback of one run receives 'completed' at most
\* once, and never both 'error' and 'completed'.
C14_ErrorAndCompletedExclusive ==
  \A r \in Runs :
    /\ events[r].completed <= 1
    /\ ~(events[r].error > 0 /\ events[r].completed > 0)

\* C15: a start() call made while isRunning is answered with 'Calibration
\* already running' and changes nothing of the session: the detections, the
\* event callback, the resources and the pending timers are as they were.
C15_StartWhileRunningRejected ==
  [][(isRunning /\ (startResult' # startResult \/ nextRun' # nextRun)) =>
       /\ startResult' = "already_running"
       /\ UNCHANGED runVars]_vars

\* C15 witness: start() was refused while a run with a recorded detection
\* was listening.
C15_Witness ==
  /\ startResult = "already_running"
  /\ ListeningPhase
  /\ eventCallback = 1
  /\ detections # <<>>

(***************************************************************************)
(* SpecClock: a ClockSynchronizer given time exchanges                     *)
(***************************************************************************)
\* calls of processMeasurement between two reset()
MaxSamples == 4

\* t4 of an exchange, counted from lastUpdateTime (microseconds)
ClockSteps == {-1000, 0, 100000, 1000000}

\* the paths of an exchange: the delay to the server, the delay back, and
\* the offset of the server clock (microseconds)
Exchanges ==
  { [up |-> 1000, down |-> 1000, theta |-> 250],
    [up |-> 400, down |-> 601, theta |-> 0] }

\* the exchange that path x completes at client time t4, the server
\* answering at once
ExchangeAt(t4, x) ==
  [t1 |-> t4 - x.up - x.down,
   t2 |-> t4 - x.down + x.theta,
   t3 |-> t4 - x.down + x.theta,
   t4 |-> t4]

\* processMeasurement(t1, t2, t3, t4)
Measure(step, x) ==
  /\ Len(samples) < MaxSamples
  /\ LET m == ExchangeAt(clock.lastUpdateTime + step, x)
     IN  /\ clock' = processMeasurement(clock, m.t1, m.t2, m.t3, m.t4)
         /\ samples' = Append(samples, m)
  /\ UNCHANGED <<syncState, fresh, resetCalls>>
  /\ UNCHANGED <<sessionVars, matchVars, partVars>>

\* reset()
ResetClock ==
  /\ samples # <<>>
  /\ clock' = reset(clock)
  /\ samples' = <<>>
  /\ UNCHANGED <<syncState, fresh, resetCalls>>
  /\ UNCHANGED <<sessionVars, matchVars, partVars>>

NextClock ==
  \/ \E step \in ClockSteps, x \in Exchanges : Measure(step, x)
  \/ ResetClock

SpecClock == Init /\ [][NextClock]_vars

(***************************************************************************)
(* SpecSync: the sync clients of two calibration sessions.  Every client   *)
(* that CalibrationSession.start() creates is given no synchronizer and    *)
(* takes the singleton.                                                    *)
(***************************************************************************)
\* t4 of a server/time answer, counted from lastUpdateTime: the answers come
\* INITIAL_SYNC_DELAY_MS apart at first and TIME_SYNC_INTERVAL_MS apart later
SyncSteps == {100000, 1000000}

\* the path of the exchanges with the server
SyncExchange == [up |-> 1000, down |-> 1000, theta |-> 250]

\* connect(serverUrl) on the client a session has just created
ClientConnect(c) ==
  /\ syncState[c] = "disconnected"
  /\ syncState' = [syncState EXCEPT ![c] = "connecting"]
  /\ clock' = reset(clock)
  /\ samples' = <<>>
  /\ UNCHANGED <<fresh, resetCalls>>
  /\ UNCHANGED <<sessionVars, matchVars, partVars>>

\* ws.onopen
ClientOpen(c) ==
  /\ syncState[c] = "connecting"
  /\ syncState' = [syncState EXCEPT ![c] = "handshaking"]
  /\ UNCHANGED <<clock, samples>>
  /\ UNCHANGED <<fresh, resetCalls>>
  /\ UNCHANGED <<sessionVars, matchVars, partVars>>

\* handleServerHello
ServerHello(c) ==
  /\ syncState[c] = "handshaking"
  /\ syncState' = [syncState EXCEPT ![c] = "syncing"]
  /\ UNCHANGED <<clock, samples>>
  /\ UNCHANGED <<fresh, resetCalls>>
  /\ UNCHANGED <<sessionVars, matchVars, partVars>>

\* handleServerTime: the answer to a client/time of the sync loop
ServerTime(c, step) ==
  /\ syncState[c] \in {"syncing", "synced"}
  /\ Len(samples) < MaxSamples
  /\ LET m == ExchangeAt(clock.lastUpdateTime + step, SyncExchange)
     IN  /\ clock' = processMeasurement(clock, m.t1, m.t2, m.t3, m.t4)
         /\ samples' = Append(samples, m)
  /\ syncState' = [syncState EXCEPT
       ![c] = IF isConverged(clock') /\ syncState[c] = "syncing" THEN "synced" ELSE @]
  /\ UNCHANGED <<fresh, resetCalls>>
  /\ UNCHANGED <<sessionVars, matchVars, partVars>>

\* disconnect(), and ws.onclose
ClientDisconnect(c) ==
  /\ syncState[c] # "disconnected"
  /\ syncState' = [syncState EXCEPT ![c] = "disconnected"]
  /\ UNCHANGED <<clock, samples>>
  /\ UNCHANGED <<fresh, resetCalls>>
  /\ UNCHANGED <<sessionVars, matchVars, partVars>>

NextSync ==
  \/ \E c \in Clients : ClientConnect(c)
  \/ \E c \in Clients : ClientOpen(c)
  \/ \E c \in Clients : ServerHello(c)
  \/ \E c \in Clients, step \in SyncSteps : ServerTime(c, step)
  \/ \E c \in Clients : ClientDisconnect(c)

SpecSync == Init /\ [][NextSync]_vars

(***************************************************************************)
(* Claims on the clock synchronizer                                        *)
(***************************************************************************)
\* the clients whose connection is in use
ActiveClients == {c \in Clients : syncState[c] # "disconnected"}

\* C16: the clock estimate is owned by one active session: whenever a sync
\* client resets the ClockSynchronizer or feeds it a measurement, no other
\* client is using it.
C16_ClockExclusivelyOwned ==
  [][samples' # samples => Cardinality(ActiveClients') <= 1]_vars

\* the exchange a step has just given to processMeasurement
Measured == Len(samples') = Len(samples) + 1

LastSample == samples'[Len(samples')]

\* C17: a processMeasurement with measurementCount >= 1 and
\* t4 <= lastUpdateTime leaves the seven fields unchanged; an accepted one
\* has t4 above lastUpdateTime (once a measurement has been accepted), sets
\* lastUpdateTime to t4 and adds one to measurementCount.
C17_StaleSampleRejected ==
  [][Measured =>
       /\ (clock.measurementCount >= 1 /\ LastSample.t4 <= clock.lastUpdateTime)
            => clock' = clock
       /\ clock'.measurementCount \in {clock.measurementCount, clock.measurementCount + 1}
       /\ clock'.measurementCount = clock.measurementCount => clock' = clock
       /\ clock'.measurementCount = clock.measurementCount + 1 =>
            /\ clock'.lastUpdateTime = LastSample.t4
            /\ clock.measurementCount >= 1 => LastSample.t4 > clock.lastUpdateTime]_vars

\* samples have been rejected and samples have been accepted after the first
C17_Witness ==
  /\ clock.measurementCount >= 2
  /\ Len(samples) > clock.measurementCount
  /\ \E i \in 1..(Len(samples) - 1) : samples[i + 1].t4 < samples[i].t4
  /\ \E i \in 1..(Len(samples) - 1) : samples[i + 1].t4 = samples[i].t4

\* C18: isConverged implies measurementCount >= 3 and
\* sqrt(offsetVariance) < 2000, that is offsetVariance < 4000000; with fewer
\* than 3 accepted measurements isConverged is false.
C18_ConvergedMeansThreeAndCertain ==
  /\ isConverged(clock) =>
       /\ clock.measurementCount >= 3
       /\ F64Lt(clock.offsetVariance, F64FromInt(4000000))
  /\ clock.measurementCount < 3 => ~isConverged(clock)

\* two measurements accepted, the uncertainty below the threshold, and not
\* converged
C18_Witness ==
  /\ clock.measurementCount = 2
  /\ F64Lt(clock.offsetVariance, F64FromInt(4000000))
  /\ ~isConverged(clock)

\* the round-trip time, and twice the measured offset, of an exchange
RttOfSample(m) == (m.t4 - m.t1) - (m.t3 - m.t2)

TwiceOffsetOfSample(m) == (m.t2 - m.t1) + (m.t3 - m.t4)

\* every sample since the reset has the same round-trip time of at most
\* 2000, the same measured offset, and t4 a constant step of at most one
\* second above the t4 before
StableSamples ==
  /\ samples # <<>>
  /\ RttOfSample(samples[1]) <= 2000
  /\ \A i \in 1..Len(samples) :
       /\ RttOfSample(samples[i]) = RttOfSample(samples[1])
       /\ TwiceOffsetOfSample(samples[i]) = TwiceOffsetOfSample(samples[1])
  /\ LET step == IF Len(samples) >= 2 THEN samples[2].t4 - samples[1].t4 ELSE 1
     IN  /\ step >= 1
         /\ step <= MicrosPerSecond
         /\ \A i \in 1..(Len(samples) - 1) : samples[i + 1].t4 = samples[i].t4 + step

\* C19: from a fresh or reset synchronizer, with samples of a constant
\* round-trip time of at most 2000, a constant measured offset and a constant
\* step of t4 of at most one second, isConverged is true from the third
\* sample on.
C19_ConvergesByThirdSample ==
  (StableSamples /\ Len(samples) >= 3) => isConverged(clock)

\* four such samples one second apart, with the round-trip time at its limit
C19_Witness ==
  /\ StableSamples
  /\ Len(samples) = 4
  /\ RttOfSample(samples[1]) = 2000
  /\ samples[2].t4 = samples[1].t4 + MicrosPerSecond
  /\ isConverged(clock)

\* C20: the first processMeasurement after construction or reset() sets
\* offset to ((t2-t1)+(t3-t4))/2, leaves drift 0, sets lastUpdateTime to t4
\* and measurementCount to 1, and leaves offsetVariance, driftVariance and
\* covariance as they were, whatever t4.
C20_FirstMeasurementInitializes ==
  [][(Measured /\ clock.measurementCount = 0) =>
       /\ F64Add(clock'.offset, clock'.offset) = F64FromInt(TwiceOffsetOfSample(LastSample))
       /\ clock'.drift = F64Zero
       /\ clock'.lastUpdateTime = LastSample.t4
       /\ clock'.measurementCount = 1
       /\ clock'.offsetVariance = clock.offsetVariance
       /\ clock'.driftVariance = clock.driftVariance
       /\ clock'.covariance = clock.covariance]_vars

\* a first measurement with t4 below lastUpdateTime and an offset that is
\* not a whole number of microseconds, after a reset()
C20_Witness ==
  /\ Len(samples) = 1
  /\ clock.measurementCount = 1
  /\ samples[1].t4 < 0
  /\ TwiceOffsetOfSample(samples[1]) % 2 = 1
  /\ clock.lastUpdateTime = samples[1].t4

(***************************************************************************)
(* SpecReset: a ClockSynchronizer that is reset, beside one constructed at *)
(* the reset, both given the same exchanges                                *)
(***************************************************************************)
\* calls of processMeasurement on each instance between two reset()
MaxBoth == 3

\* processMeasurement(t1, t2, t3, t4) on both instances
MeasureBoth(step, x) ==
  /\ Len(samples) < MaxBoth
  /\ \E m \in {ExchangeAt(clock.lastUpdateTime + step, x)} :
       /\ \E both \in {[k \in 1..2 |->
                            processMeasurement(IF k = 1 THEN clock ELSE fresh,
                                               m.t1, m.t2, m.t3, m.t4)]} :
             /\ clock' = both[1]
             /\ fresh' = both[2]
       /\ samples' = Append(samples, m)
  /\ UNCHANGED <<syncState, resetCalls>>
  /\ UNCHANGED <<sessionVars, matchVars, partVars>>

\* reset() on the instance in use, and new ClockSynchronizer() beside it
ResetAndConstruct ==
  /\ samples # <<>>
  /\ resetCalls = 0
  /\ clock' = reset(clock)
  /\ fresh' = NewClock
  /\ samples' = <<>>
  /\ resetCalls' = resetCalls + 1
  /\ UNCHANGED syncState
  /\ UNCHANGED <<sessionVars, matchVars, partVars>>

NextReset ==
  \/ \E step \in {100000, 1000000},
        x \in { [up |-> 1000, down |-> 1000, theta |-> 250],
                [up |-> 50000, down |-> 50000, theta |-> 0],
                [up |-> 200, down |-> 600, theta |-> 200] } : MeasureBoth(step, x)
  \/ ResetAndConstruct

SpecReset == Init /\ [][NextReset]_vars

\* C21: reset() puts the synchronizer in the state of a freshly constructed
\* one, and from then on the same exchanges give it the same estimates and
\* the same isConverged as they give a new instance.
C21_ResetEqualsFresh ==
  /\ clock = fresh
  /\ isConverged(clock) = isConverged(fresh)
  /\ samples = <<>> => clock = NewClock

\* an instance that was measured, reset, and measured again to convergence
C21_Witness ==
  /\ resetCalls = 1
  /\ Len(samples) >= 3
  /\ isConverged(clock)
  /\ clock = fresh

\* every sample since the reset has t2 - t1 = t4 - t3, and t4 above the t4
\* before
SymmetricSamples ==
  /\ \A i \in 1..Len(samples) :
       samples[i].t2 - samples[i].t1 = samples[i].t4 - samples[i].t3
  /\ \A i \in 1..(Len(samples) - 1) : samples[i + 1].t4 > samples[i].t4

\* C22: with a symmetric path on every sample and t4 strictly increasing,
\* the offset estimate and the drift estimate are 0 after every sample.
C22_SymmetricPathGivesZero ==
  (samples # <<>> /\ SymmetricSamples) => (clock.offset = F64Zero /\ clock.drift = F64Zero)

\* symmetric samples of different round-trip times and steps
C22_Witness ==
  /\ Len(samples) >= 3
  /\ SymmetricSamples
  /\ RttOfSample(samples[1]) # RttOfSample(samples[2])
  /\ samples[3].t4 - samples[2].t4 # samples[2].t4 - samples[1].t4
  /\ clock.measurementCount = Len(samples)
  /\ clock.offset = F64Zero

(***************************************************************************)
(* SpecSteady: a ClockSynchronizer given the same exchange again and       *)
(* again, a constant step apart                                            *)
(***************************************************************************)
\* calls of processMeasurement
MaxSteady == 7

\* processMeasurement(t1, t2, t3, t4) with the path and the step of the
\* first sample
MeasureSteady(step, x) ==
  /\ Len(samples) < MaxSteady
  /\ samples # <<>> => (step = samples[1].t4 /\ ExchangeAt(samples[1].t4, x) = samples[1])
  /\ LET m == ExchangeAt(clock.lastUpdateTime + step, x)
     IN  /\ clock' = processMeasurement(clock, m.t1, m.t2, m.t3, m.t4)
         /\ samples' = Append(samples, m)
  /\ UNCHANGED <<syncState, fresh, resetCalls>>
  /\ UNCHANGED <<sessionVars, matchVars, partVars>>

NextSteady ==
  \E step \in {10000, 50000, 100000, 1000000},
     x \in { [up |-> 200, down |-> 200, theta |-> 0],
             [up |-> 50000, down |-> 50000, theta |-> 0],
             [up |-> 1000, down |-> 1000, theta |-> 250],
             [up |-> 400, down |-> 601, theta |-> 0] } : MeasureSteady(step, x)

SpecSteady == Init /\ [][NextSteady]_vars

\* C23: after four samples with t2 - t1 = t4 - t3 = 50000, at most one
\* second apart, the synchronizer is converged with offset 0.
C23_FiftyMillisecondPathConverges ==
  ( /\ Len(samples) = 4
    /\ \A i \in 1..4 : /\ samples[i].t2 - samples[i].t1 = 50000
                       /\ samples[i].t4 - samples[i].t3 = 50000
    /\ \A i \in 1..3 : samples[i + 1].t4 - samples[i].t4 <= MicrosPerSecond )
  => (isConverged(clock) /\ clock.offset = F64Zero)

\* C24: with the same measured offset, round-trip time and step on every
\* sample, an accepted sample leaves the offset estimate between the
\* estimate before and the measured offset, and does not raise
\* offsetVariance.
C24_SteadyInputIsMonotone ==
  [][(Measured /\ clock.measurementCount >= 1) =>
       LET target == measuredOffsetOf(LastSample.t1, LastSample.t2, LastSample.t3, LastSample.t4)
       IN  /\ ~F64Lt(clock.offsetVariance, clock'.offsetVariance)
           /\ \/ (~F64Lt(clock'.offset, clock.offset) /\ ~F64Lt(target, clock'.offset))
              \/ (~F64Lt(clock.offset, clock'.offset) /\ ~F64Lt(clock'.offset, target))]_vars

(***************************************************************************)
(* SpecConnect: the clock-sync phase of CalibrationSession.start(), with   *)
(* the socket of the sync client driven by any server.  Whether the clock  *)
(* has converged is a boolean that a server/time answer may set.           *)
(***************************************************************************)
\* waitForSync(3000), polled every 100 ms
waitTimeoutMs == 3000

checkSyncMs == 100

\* the rest is left alone by the sync phase
ConnFrame ==
  /\ UNCHANGED <<syncState, fresh, resetCalls, ma, det, fnIn, fnOut>>
  /\ UNCHANGED <<sessionVars, matchVars>>

\* start(): createSendspinSyncClient and connect(serverUrl), up to the
\* promise it returns
BeginClockSync ==
  /\ conn.phase = "idle"
  /\ conn' = [conn EXCEPT !.state = "connecting", !.socket = "connecting",
                          !.connect = "pending", !.timeout = TRUE, !.phase = "connect"]
  /\ clock' = reset(clock)
  /\ samples' = <<>>
  /\ ConnFrame

\* ws.onopen
OnOpen ==
  /\ conn.socket = "connecting"
  /\ ~conn.errored
  /\ conn' = [conn EXCEPT !.socket = "open", !.timeout = FALSE, !.state = "handshaking"]
  /\ UNCHANGED <<clock, samples>>
  /\ ConnFrame

\* ws.onerror
OnError ==
  /\ conn.socket \in {"connecting", "open"}
  /\ conn' = [conn EXCEPT !.errored = TRUE, !.timeout = FALSE,
                          !.connect = IF @ = "pending" THEN "rejected" ELSE @]
  /\ UNCHANGED <<clock, samples>>
  /\ ConnFrame

\* ws.onclose: of an open socket, or after the error of a failed one
OnClose ==
  /\ conn.socket = "open" \/ (conn.socket = "connecting" /\ conn.errored)
  /\ conn' = [conn EXCEPT !.socket = "closed", !.syncLoop = FALSE, !.state = "disconnected"]
  /\ UNCHANGED <<clock, samples>>
  /\ ConnFrame

\* ws.onmessage with server/hello
OnServerHello ==
  /\ conn.socket = "open"
  /\ conn' = [conn EXCEPT !.state = "syncing", !.syncLoop = TRUE,
                          !.connect = IF @ = "pending" THEN "resolved" ELSE @]
  /\ UNCHANGED <<clock, samples>>
  /\ ConnFrame

\* ws.onmessage with server/time
OnServerTime(converges) ==
  /\ conn.socket = "open"
  /\ LET state == IF converges /\ conn.state = "syncing" THEN "synced" ELSE conn.state
     IN  conn' = [conn EXCEPT !.converged = converges, !.state = state,
                              !.connect = IF @ = "pending" /\ state \in {"syncing", "synced"}
                                          THEN "resolved" ELSE @]
  /\ UNCHANGED <<clock, samples>>
  /\ ConnFrame

\* the 10 s timer of connect(): reject, then disconnect()
OnConnectTimeout ==
  /\ conn.timeout
  /\ conn' = [disconnectSync([conn EXCEPT !.timeout = FALSE])
                EXCEPT !.connect = IF @ = "pending" THEN "rejected" ELSE @]
  /\ UNCHANGED <<clock, samples>>
  /\ ConnFrame

\* start() after await connect(): waitForSync(3000) and its first
\* checkSync(), or the catch block
AfterConnect ==
  /\ conn.phase = "connect"
  /\ conn.connect # "pending"
  /\ conn' = IF conn.connect = "rejected" THEN [conn EXCEPT !.phase = "done"]
             ELSE IF conn.converged THEN [conn EXCEPT !.wait = "true", !.phase = "done"]
             ELSE [conn EXCEPT !.wait = "pending", !.phase = "wait"]
  /\ UNCHANGED <<clock, samples>>
  /\ ConnFrame

\* checkSync() from its timer, 100 ms after the one before
CheckSync ==
  /\ conn.wait = "pending"
  /\ conn' = IF conn.converged THEN [conn EXCEPT !.wait = "true", !.phase = "done"]
             ELSE IF (conn.polls + 1) * checkSyncMs >= waitTimeoutMs
             THEN [conn EXCEPT !.wait = "false", !.phase = "done"]
             ELSE [conn EXCEPT !.polls = @ + 1]
  /\ UNCHANGED <<clock, samples>>
  /\ ConnFrame

NextConnect ==
  \/ BeginClockSync
  \/ OnOpen
  \/ OnError
  \/ OnClose
  \/ OnServerHello
  \/ \E converges \in BOOLEAN : OnServerTime(converges)
  \/ OnConnectTimeout
  \/ AfterConnect
  \/ CheckSync

\* the timers fire and the continuation of start() runs; the server owes
\* nothing
SpecConnect ==
  /\ Init
  /\ [][NextConnect]_vars
  /\ WF_vars(BeginClockSync)
  /\ WF_vars(OnConnectTimeout)
  /\ WF_vars(AfterConnect)
  /\ WF_vars(CheckSync)

\* C25: the clock-sync phase of start() ends, with sync success or with
\* fallback, whatever the server does: connect() settles and waitForSync
\* resolves.
C25_SyncPhaseEnds ==
  <>(conn.phase = "done")

(***************************************************************************)
(* SpecReconnect: MAWebSocketClient, its sockets and its reconnect timers. *)
(* Every socket keeps the handlers and the connection timeout of the       *)
(* connect() call that created it.                                         *)
(***************************************************************************)
MaxSockets == 4

maxReconnectAttempts == 5

reconnectDelay == 1000

RECURSIVE Pow2(_)
Pow2(n) == IF n = 0 THEN 1 ELSE 2 * Pow2(n - 1)

MAFrame ==
  /\ UNCHANGED <<conn, det, fnIn, fnOut>>
  /\ UNCHANGED <<sessionVars, matchVars, clockVars>>

RemoveAt(seq, j) == SubSeq(seq, 1, j - 1) \o SubSeq(seq, j + 1, Len(seq))

\* ws.close() on socket i: the close event follows
closeSocket(sockets, i) ==
  IF i # 0 /\ sockets[i].state \in {"connecting", "open"}
  THEN [sockets EXCEPT ![i].state = "closing"]
  ELSE sockets

\* connect(serverUrl), up to the promise it returns
connect(m) ==
  [m EXCEPT !.serverUrl = TRUE, !.shouldReconnect = TRUE, !.reconnectAttempts = 0,
            !.initialized = FALSE,
            !.sockets = Append(@, [state |-> "connecting", timeout |-> TRUE]),
            !.ws = Len(m.sockets) + 1]

attemptReconnect(m) ==
  IF ~m.shouldReconnect THEN m
  ELSE IF m.reconnectAttempts >= maxReconnectAttempts THEN m
  ELSE LET attempts == m.reconnectAttempts + 1
           delayMs == reconnectDelay * Pow2(attempts - 1)
       IN  [m EXCEPT !.reconnectAttempts = attempts, !.timers = Append(@, delayMs),
                     !.retries = @ + 1, !.lastDelay = delayMs]

\* ConnectionPanel: await maClient.connect(url)
MAConnect ==
  /\ Len(ma.sockets) < MaxSockets
  /\ ma' = [connect(ma) EXCEPT !.retries = 0, !.lastDelay = 0]
  /\ MAFrame

\* ws.onopen
MAOpen(i) ==
  /\ ma.sockets[i].state = "connecting"
  /\ ma' = [ma EXCEPT !.sockets[i].state = "open"]
  /\ MAFrame

\* ws.onmessage with the server info, before initialized
MAServerInfo(i) ==
  /\ ma.sockets[i].state = "open"
  /\ ~ma.initialized
  /\ ma' = [ma EXCEPT !.initialized = TRUE, !.sockets[i].timeout = FALSE,
                      !.reconnectAttempts = 0, !.retries = 0, !.lastDelay = 0]
  /\ MAFrame

\* ws.onerror; the socket closes after it
MAError(i) ==
  /\ ma.sockets[i].state \in {"connecting", "open"}
  /\ ma' = [ma EXCEPT !.sockets[i].state = "closing",
                      !.sockets[i].timeout = IF ma.initialized THEN @ ELSE FALSE]
  /\ MAFrame

\* ws.onclose
MAClose(i) ==
  /\ ma.sockets[i].state \in {"open", "closing"}
  /\ ma' = attemptReconnect([ma EXCEPT !.sockets[i].state = "closed",
                                       !.initialized = FALSE])
  /\ MAFrame

\* the 10 s timer of the connect() call that created socket i
MAConnectionTimeout(i) ==
  /\ ma.sockets[i].timeout
  /\ ma' = [ma EXCEPT !.sockets = closeSocket([@ EXCEPT ![i].timeout = FALSE], ma.ws)]
  /\ MAFrame

\* the timer set by attemptReconnect
MAReconnectTimer(j) ==
  /\ Len(ma.sockets) < MaxSockets
  /\ LET m == [ma EXCEPT !.timers = RemoveAt(@, j)]
     IN  ma' = IF m.shouldReconnect /\ m.serverUrl THEN connect(m) ELSE m
  /\ MAFrame

\* disconnect(), the loop over pendingRequests and the clear() after it
rejectPending(calls) ==
  [i \in DOMAIN calls |->
     IF calls[i].pending
     THEN [calls[i] EXCEPT !.pending = FALSE, !.timeout = FALSE, !.settles = @ + 1,
                           !.outcome = "closed"]
     ELSE calls[i]]

MADisconnect ==
  /\ ma.serverUrl
  /\ ma' = [ma EXCEPT !.shouldReconnect = FALSE, !.initialized = FALSE,
                      !.sockets = closeSocket(@, ma.ws), !.ws = 0,
                      !.calls = rejectPending(@)]
  /\ MAFrame

NextReconnect ==
  \/ MAConnect
  \/ \E i \in DOMAIN ma.sockets : MAOpen(i)
  \/ \E i \in DOMAIN ma.sockets : MAServerInfo(i)
  \/ \E i \in DOMAIN ma.sockets : MAError(i)
  \/ \E i \in DOMAIN ma.sockets : MAClose(i)
  \/ \E i \in DOMAIN ma.sockets : MAConnectionTimeout(i)
  \/ \E j \in DOMAIN ma.timers : MAReconnectTimer(j)
  \/ MADisconnect

SpecReconnect == Init /\ [][NextReconnect]_vars

\* C26: reconnection is a bounded retry with exponential backoff: at most
\* maxReconnectAttempts consecutive attempts are scheduled, and the k-th of
\* them is delayed reconnectDelay * 2^(k-1) ms.
C26_BoundedExponentialBackoff ==
  /\ ma.retries <= maxReconnectAttempts
  /\ ma.retries >= 1 => ma.lastDelay = reconnectDelay * Pow2(ma.retries - 1)

(***************************************************************************)
(* SpecPush: pushSyncOffsets over the entries of its results record.  What *)
(* the MA client does with a command is an input: "ok", "error" (the       *)
(* command was sent and failed or timed out) or "unsent" (sendCommand      *)
(* threw before sending because the connection was gone).                  *)
(***************************************************************************)
MaxPlayers == 2

PlayerIds == {"kitchen", "living", "office"}

OffsetsMs == {-5, 12}

CommandOutcomes == {"ok", "error", "unsent"}

\* maClient.sendCommand as pushViaProtocol and pushViaConfigApi use it:
\* the commands sent and whether the await returned
sendCommand(command, playerId, outcome) ==
  [sent |-> IF outcome = "unsent" THEN <<>>
            ELSE << [command |-> command, playerId |-> playerId, ok |-> outcome = "ok"] >>,
   success |-> outcome = "ok"]

pushViaProtocol(playerId, outcome) ==
  sendCommand("players/cmd/sync_offset", playerId, outcome)

pushViaConfigApi(playerId, outcome) ==
  sendCommand("config/players/save", playerId, outcome)

\* the config API tried whatever the protocol push returned
pushSingleOffsetAlwaysConfig(entry, useConfigApiFallback, env) ==
  LET baseResult == [playerId |-> entry.playerId, playerName |-> entry.playerName,
                     success |-> FALSE, method |-> "none",
                     appliedOffsetMs |-> entry.offsetMs]
      protocolResult == pushViaProtocol(entry.playerId, env.protocol)
      configResult == pushViaConfigApi(entry.playerId, env.config)
  IN  IF ~env.connected THEN [result |-> baseResult, sent |-> <<>>]
      ELSE IF configResult.success
      THEN [result |-> [baseResult EXCEPT !.success = TRUE, !.method = "config"],
            sent |-> protocolResult.sent \o configResult.sent]
      ELSE IF protocolResult.success
      THEN [result |-> [baseResult EXCEPT !.success = TRUE, !.method = "protocol"],
            sent |-> protocolResult.sent \o configResult.sent]
      ELSE [result |-> baseResult, sent |-> protocolResult.sent \o configResult.sent]

pushSingleOffset(entry, useConfigApiFallback, env) ==
  LET baseResult == [playerId |-> entry.playerId, playerName |-> entry.playerName,
                     success |-> FALSE, method |-> "none",
                     appliedOffsetMs |-> entry.offsetMs]
      protocolResult == pushViaProtocol(entry.playerId, env.protocol)
      configResult == pushViaConfigApi(entry.playerId, env.config)
  IN  IF ~env.connected THEN [result |-> baseResult, sent |-> <<>>]
      ELSE IF protocolResult.success
      THEN [result |-> [baseResult EXCEPT !.success = TRUE, !.method = "protocol"],
            sent |-> protocolResult.sent]
      ELSE IF ~useConfigApiFallback
      THEN [result |-> baseResult, sent |-> protocolResult.sent]
      ELSE IF configResult.success
      THEN [result |-> [baseResult EXCEPT !.success = TRUE, !.method = "config"],
            sent |-> protocolResult.sent \o configResult.sent]
      ELSE [result |-> baseResult, sent |-> protocolResult.sent \o configResult.sent]

PushFrame ==
  /\ UNCHANGED <<conn, ma, det>>
  /\ UNCHANGED <<sessionVars, matchVars, clockVars>>

\* pushSyncOffsets(results, options): Object.entries(results) and the
\* merged options
CallPushSyncOffsets(entries, useConfigApiFallback) ==
  /\ fnIn.op = "none"
  /\ fnIn' = [op |-> "push", entries |-> entries,
              useConfigApiFallback |-> useConfigApiFallback]
  /\ fnOut' = [op |-> "push", pushResults |-> <<>>, sent |-> <<>>, envs |-> <<>>,
               returned |-> entries = <<>>]
  /\ PushFrame

\* one round of the loop of pushSyncOffsets
PushNextOffset(env) ==
  /\ fnIn.op = "push"
  /\ ~fnOut.returned
  /\ LET i == Len(fnOut.pushResults) + 1
         pushed == pushSingleOffset(fnIn.entries[i], fnIn.useConfigApiFallback, env)
     IN  fnOut' = [fnOut EXCEPT !.pushResults = Append(@, pushed.result),
                                !.sent = @ \o pushed.sent,
                                !.envs = Append(@, env),
                                !.returned = i = Len(fnIn.entries)]
  /\ UNCHANGED fnIn
  /\ PushFrame

PushEntries ==
  {e \in UNION {[1..n -> [playerId : PlayerIds, playerName : {"Speaker"}, offsetMs : OffsetsMs]]
                : n \in 0..MaxPlayers} :
     \A i, j \in DOMAIN e : i # j => e[i].playerId # e[j].playerId}

\* what the MA client does for one player; nothing runs between the
\* isConnected check of pushSingleOffset and that of the protocol command
PushEnvs ==
  {env \in [connected : BOOLEAN, protocol : CommandOutcomes, config : CommandOutcomes] :
     env.connected => env.protocol # "unsent"}

NextPush ==
  \/ \E entries \in PushEntries, fallback \in BOOLEAN :
        CallPushSyncOffsets(entries, fallback)
  \/ \E env \in PushEnvs : PushNextOffset(env)

SpecPush == Init /\ [][NextPush]_vars

\* the commands sent for one player, in the order sent
SentFor(playerId) ==
  SelectSeq(fnOut.sent, LAMBDA c : c.playerId = playerId)

\* C27: pushSyncOffsets returns one PushResult per input entry, in input
\* order; per player the protocol command goes first and the config command
\* only after the protocol command failed; method is 'protocol' iff the
\* protocol command succeeded, 'config' iff it failed and the config command
\* succeeded, otherwise success is false with method 'none'; a player found
\* not connected gets no command.
C27_PushResultsFollowCommands ==
  fnOut.op = "push" =>
    /\ Len(fnOut.pushResults) <= Len(fnIn.entries)
    /\ fnOut.returned <=> Len(fnOut.pushResults) = Len(fnIn.entries)
    /\ \A i \in DOMAIN fnOut.pushResults :
         LET r == fnOut.pushResults[i]
             e == fnIn.entries[i]
             sent == SentFor(e.playerId)
             protocolOk == Len(sent) >= 1 /\ sent[1].ok
             configOk == Len(sent) = 2 /\ sent[2].ok
         IN  /\ r.playerId = e.playerId
             /\ r.playerName = e.playerName
             /\ r.appliedOffsetMs = e.offsetMs
             /\ Len(sent) <= 2
             /\ Len(sent) >= 1 => sent[1].command = "players/cmd/sync_offset"
             /\ Len(sent) = 2 => sent[2].command = "config/players/save" /\ ~sent[1].ok
             /\ r.method = "protocol" <=> protocolOk
             /\ r.method = "config" <=> configOk
             /\ r.success <=> r.method # "none"
             /\ r.method \in {"protocol", "config", "none"}
             /\ ~fnOut.envs[i].connected => sent = <<>>

\* two players pushed, the first by the config API after its protocol
\* command failed, the second found not connected
C27_Witness ==
  /\ fnOut.op = "push"
  /\ fnOut.returned
  /\ Len(fnOut.pushResults) = 2
  /\ fnOut.pushResults[1].method = "config"
  /\ ~fnOut.envs[2].connected
  /\ Len(fnOut.sent) = 2

(***************************************************************************)
(* SpecClicks: ClickTrackGenerator.getClickTimestamps over configurations  *)
(* with whole seconds and whole milliseconds.                              *)
(***************************************************************************)
MaxDurationSec == 3

ClickIntervalsMs == {250, 300, 1000, 1500, 7000}

ClickFrequencies == {1000, 2000}

MaxFrequencies == 3

FnFrame ==
  /\ UNCHANGED <<conn, ma, det>>
  /\ UNCHANGED <<sessionVars, matchVars, clockVars>>

\* new ClickTrackGenerator(cfg): totalClicks stands for totalDuration,
\* clickIntervalMs for clickInterval
NewClickTrackGenerator(cfg) ==
  /\ fnIn.op = "none"
  /\ fnIn' = [op |-> "clicks", config |-> cfg]
  /\ fnOut' = [op |-> "clicks", returned |-> FALSE, timestamps |-> <<>>]
  /\ FnFrame

GetClickTimestamps ==
  /\ fnIn.op = "clicks"
  /\ fnOut' = [fnOut EXCEPT !.returned = TRUE, !.timestamps = getClickTimestamps(fnIn.config)]
  /\ UNCHANGED fnIn
  /\ FnFrame

NextClicks ==
  \/ \E totalDuration \in 1..MaxDurationSec, clickInterval \in ClickIntervalsMs,
        frequencies \in UNION {[1..n -> ClickFrequencies] : n \in 1..MaxFrequencies} :
        NewClickTrackGenerator([totalClicks |-> totalDuration,
                                clickIntervalMs |-> clickInterval,
                                frequencies |-> frequencies])
  \/ GetClickTimestamps

SpecClicks == Init /\ [][NextClicks]_vars

\* C28: getClickTimestamps returns floor(totalDuration*1000/clickInterval)
\* entries; entry i has time i*clickInterval, so the times increase strictly
\* in steps of clickInterval, and frequency frequencies[i mod len].
C28_ClickTimestampsFollowConfig ==
  (fnOut.op = "clicks" /\ fnOut.returned) =>
    LET c == fnIn.config
        ts == fnOut.timestamps
        n == Len(ts)
    IN  /\ n * c.clickIntervalMs <= c.totalClicks * 1000
        /\ (n + 1) * c.clickIntervalMs > c.totalClicks * 1000
        /\ \A k \in 1..n :
             /\ ts[k].time = (k - 1) * c.clickIntervalMs
             /\ ts[k].frequency = c.frequencies[((k - 1) % Len(c.frequencies)) + 1]
        /\ \A k \in 1..(n - 1) : ts[k + 1].time - ts[k].time = c.clickIntervalMs

\* ten clicks 300 ms apart in 3 s, the three frequencies wrapping round
C28_Witness ==
  /\ fnOut.op = "clicks"
  /\ fnOut.returned
  /\ Len(fnOut.timestamps) = 10
  /\ fnIn.config.clickIntervalMs = 300
  /\ Len(fnIn.config.frequencies) = 3
  /\ fnOut.timestamps[4].frequency = fnIn.config.frequencies[1]
  /\ fnOut.timestamps[3].frequency # fnOut.timestamps[4].frequency

(***************************************************************************)
(* SpecWav: ClickTrackGenerator.createWavFile (createWavBuffer of the      *)
(* script writes the same header), the file as a sequence of bytes, and a  *)
(* reader of the 44-byte RIFF/WAVE header.  Samples are -1, 0 and 1 and    *)
(* values outside that range.                                              *)
(***************************************************************************)
MaxFrames == 2

SampleRates == {8000, 44100, 48000, 96000}

SampleValues == {-2, -1, 0, 1}

\* DataView.setUint32(offset, v, false)
setUint32BigEndian(v) ==
  << (v \div 16777216) % 256, (v \div 65536) % 256, (v \div 256) % 256, v % 256 >>

\* DataView.setUint32(offset, v, true)
setUint32(v) ==
  << v % 256, (v \div 256) % 256, (v \div 65536) % 256, (v \div 16777216) % 256 >>

\* DataView.setUint16(offset, v, true)
setUint16(v) == << v % 256, (v \div 256) % 256 >>

\* DataView.setInt16(offset, v, true)
setInt16(v) == setUint16((v + 65536) % 65536)

\* writeString: the char codes of 'RIFF', 'WAVE', 'fmt ' and 'data'
writeString(str) ==
  CASE str = "RIFF" -> <<82, 73, 70, 70>>
    [] str = "WAVE" -> <<87, 65, 86, 69>>
    [] str = "fmt " -> <<102, 109, 116, 32>>
    [] str = "data" -> <<100, 97, 116, 97>>

clampSample(x) == IF x < -1 THEN -1 ELSE IF x > 1 THEN 1 ELSE x

\* the loop over the frames from frame i on
RECURSIVE interleaved(_, _, _)
interleaved(leftChannel, rightChannel, i) ==
  IF i > Len(leftChannel) THEN <<>>
  ELSE setInt16(clampSample(leftChannel[i]) * 32767)
       \o setInt16(clampSample(rightChannel[i]) * 32767)
       \o interleaved(leftChannel, rightChannel, i + 1)

createWavFile(leftChannel, rightChannel, sampleRate) ==
  LET numChannels == 2
      bitsPerSample == 16
      bytesPerSample == bitsPerSample \div 8
      blockAlign == numChannels * bytesPerSample
      byteRate == sampleRate * blockAlign
      dataSize == Len(leftChannel) * blockAlign
      fileSize == 44 + dataSize
  IN  writeString("RIFF") \o setUint32(fileSize - 8) \o writeString("WAVE")
      \o writeString("fmt ") \o setUint32(16) \o setUint16(1) \o setUint16(numChannels)
      \o setUint32(sampleRate) \o setUint32(byteRate) \o setUint16(blockAlign)
      \o setUint16(bitsPerSample)
      \o writeString("data") \o setUint32(dataSize)
      \o interleaved(leftChannel, rightChannel, 1)

\* generateWavBlob, its channels given
GenerateWav(leftChannel, rightChannel, sampleRate) ==
  /\ fnIn.op = "none"
  /\ fnIn' = [op |-> "wav", leftChannel |-> leftChannel, rightChannel |-> rightChannel,
              sampleRate |-> sampleRate]
  /\ fnOut' = [op |-> "wav", bytes |-> createWavFile(leftChannel, rightChannel, sampleRate)]
  /\ FnFrame

\* the header read back: little-endian fields at their RIFF offsets
readUint(bytes, offset, size) ==
  LET RECURSIVE value(_)
      value(k) == IF k = size THEN 0 ELSE bytes[offset + k + 1] + 256 * value(k + 1)
  IN  value(0)

parseWavHeader(bytes) ==
  [riff |-> SubSeq(bytes, 1, 4), riffSize |-> readUint(bytes, 4, 4),
   wave |-> SubSeq(bytes, 9, 12), fmt |-> SubSeq(bytes, 13, 16),
   fmtSize |-> readUint(bytes, 16, 4), audioFormat |-> readUint(bytes, 20, 2),
   numChannels |-> readUint(bytes, 22, 2), sampleRate |-> readUint(bytes, 24, 4),
   byteRate |-> readUint(bytes, 28, 4), blockAlign |-> readUint(bytes, 32, 2),
   bitsPerSample |-> readUint(bytes, 34, 2), data |-> SubSeq(bytes, 37, 40),
   dataSize |-> readUint(bytes, 40, 4)]

\* the header of the file just written
ParsedHeader == parseWavHeader(SubSeq(fnOut.bytes, 1, 44))

\* the bytes read back as a header; nothing is written
ReadWavHeader ==
  /\ fnIn.op = "wav"
  /\ fnOut' = [fnOut EXCEPT !.op = "wavRead"]
  /\ UNCHANGED fnIn
  /\ FnFrame

NextWav ==
  \/ \E n \in 0..MaxFrames, sampleRate \in SampleRates :
       \E leftChannel \in [1..n -> SampleValues], rightChannel \in [1..n -> SampleValues] :
          GenerateWav(leftChannel, rightChannel, sampleRate)
  \/ ReadWavHeader

SpecWav == Init /\ [][NextWav]_vars

\* C29: the 44-byte header of the WAV written for a click track reads back
\* as RIFF/WAVE with the sampleRate used, 2 channels, 16 bits per sample,
\* PCM format 1, blockAlign 4, byteRate sampleRate*4, data size frames*4 and
\* RIFF size file size - 8.
C29_WavHeaderRoundTrip ==
  fnOut.op \in {"wav", "wavRead"} =>
    LET h == ParsedHeader
    IN  /\ Len(fnOut.bytes) = 44 + 4 * Len(fnIn.leftChannel)
        /\ \A k \in DOMAIN fnOut.bytes : fnOut.bytes[k] \in 0..255
        /\ h.riff = <<82, 73, 70, 70>>
        /\ h.wave = <<87, 65, 86, 69>>
        /\ h.fmt = <<102, 109, 116, 32>>
        /\ h.data = <<100, 97, 116, 97>>
        /\ h.fmtSize = 16
        /\ h.audioFormat = 1
        /\ h.numChannels = 2
        /\ h.bitsPerSample = 16
        /\ h.sampleRate = fnIn.sampleRate
        /\ h.blockAlign = 4
        /\ h.byteRate = fnIn.sampleRate * 4
        /\ h.dataSize = Len(fnIn.leftChannel) * 4
        /\ h.riffSize = Len(fnOut.bytes) - 8

\* two frames at 48000 Hz: the sample rate takes two bytes and the byte
\* rate three, and a negative sample is in the data
C29_Witness ==
  /\ fnOut.op = "wavRead"
  /\ fnIn.sampleRate = 48000
  /\ Len(fnIn.leftChannel) = 2
  /\ ParsedHeader.byteRate = 192000
  /\ ParsedHeader.dataSize = 8
  /\ SubSeq(fnOut.bytes, 45, 48) = <<1, 128, 255, 127>>

(***************************************************************************)
(* SpecDetector: one AudioDetector, its audio callbacks and its clock.     *)
(***************************************************************************)
MaxChunks == 4

\* DEFAULT_AUDIO_DETECTOR_CONFIG, levels in thousandths
onsetThreshold == 10

detectorFrequencyTolerance == 100

expectedFrequencies == <<500, 1000, 2000, 3000>>

isExpectedFrequency(frequency) ==
  \E k \in DOMAIN expectedFrequencies :
     Abs(frequency - expectedFrequencies[k]) <= detectorFrequencyTolerance

\* an onset is emitted whatever the time since the last one
processAudioChunkNoGap(d, rms, frequency) ==
  LET threshold == IF d.noiseFloor * 3 > onsetThreshold THEN d.noiseFloor * 3
                   ELSE onsetThreshold
      elapsed == d.now - d.startTime
  IN  IF ~(rms > threshold) THEN d
      ELSE IF frequency # 0 /\ isExpectedFrequency(frequency)
      THEN [d EXCEPT !.lastDetectionTime = elapsed,
                     !.emitted = Append(@, [timestamp |-> elapsed, frequency |-> frequency])]
      ELSE [d EXCEPT !.rejected = elapsed]

\* processAudioChunk at the time d.now, the chunk given by its RMS level
\* and the dominant frequency the analyser reports (0 for none)
processAudioChunk(d, rms, frequency) ==
  LET threshold == IF d.noiseFloor * 3 > onsetThreshold THEN d.noiseFloor * 3
                   ELSE onsetThreshold
      elapsed == d.now - d.startTime
  IN  IF ~(rms > threshold) THEN d
      ELSE IF elapsed - d.lastDetectionTime < minClickGap THEN d
      ELSE IF frequency # 0 /\ isExpectedFrequency(frequency)
      THEN [d EXCEPT !.lastDetectionTime = elapsed,
                     !.emitted = Append(@, [timestamp |-> elapsed, frequency |-> frequency])]
      ELSE [d EXCEPT !.rejected = elapsed]

DetFrame ==
  /\ UNCHANGED <<conn, ma, fnIn, fnOut>>
  /\ UNCHANGED <<sessionVars, matchVars, clockVars>>

StartListening ==
  /\ det' = [det EXCEPT !.isListening = TRUE, !.startTime = det.now,
                        !.lastDetectionTime = 0, !.emitted = <<>>, !.rejected = -1]
  /\ DetFrame

StopListening ==
  /\ det.isListening
  /\ det' = [det EXCEPT !.isListening = FALSE]
  /\ DetFrame

\* the timer of captureNoiseFloor
CaptureNoiseFloor(level) ==
  /\ det.isListening
  /\ det' = [det EXCEPT !.noiseFloor = level]
  /\ DetFrame

\* scriptProcessor.onaudioprocess, advance ms after the event before
OnAudioProcess(advance, rms, frequency) ==
  /\ det.chunks < MaxChunks
  /\ LET d == [det EXCEPT !.now = @ + advance, !.chunks = @ + 1]
     IN  det' = IF ~d.isListening THEN d ELSE processAudioChunk(d, rms, frequency)
  /\ DetFrame

NextDetector ==
  \/ StartListening
  \/ StopListening
  \/ \E level \in {0, 10} : CaptureNoiseFloor(level)
  \/ \E advance \in {0, 100, 500}, rms \in {5, 20, 40}, frequency \in {0, 1090, 1500} :
        OnAudioProcess(advance, rms, frequency)

SpecDetector == Init /\ [][NextDetector]_vars

\* C30: within one listening session the timestamps of the emitted
\* detections increase strictly, two consecutive ones are at least
\* minClickGap ms apart, and lastDetectionTime is the timestamp of the last
\* emitted detection: an onset rejected for its frequency leaves it alone.
C30_DetectionsKeepTheGap ==
  /\ \A k \in 1..(Len(det.emitted) - 1) :
       /\ det.emitted[k + 1].timestamp > det.emitted[k].timestamp
       /\ det.emitted[k + 1].timestamp - det.emitted[k].timestamp >= minClickGap
  /\ det.lastDetectionTime = IF det.emitted = <<>> THEN 0
                             ELSE det.emitted[Len(det.emitted)].timestamp

\* a detection, an onset rejected for its frequency one gap later, and a
\* second detection less than a gap after the rejected onset
C30_Witness ==
  /\ Len(det.emitted) = 2
  /\ det.rejected > det.emitted[1].timestamp
  /\ det.emitted[2].timestamp > det.rejected
  /\ det.emitted[2].timestamp - det.rejected < minClickGap
  /\ det.startTime > 0

(***************************************************************************)
(* matchDetections: the seed and the pairing, under SpecMatch               *)
(***************************************************************************)
\* the positions, among the first SeedDetections heard, of those with
\* a schedule entry within the frequency tolerance
SeedPositions(expectedClicks, heard) ==
  {j \in DOMAIN heard :
     /\ j <= SeedDetections
     /\ \E k \in DOMAIN expectedClicks : FrequencyMatches(heard[j], expectedClicks[k])}

Least(S) == CHOOSE x \in S : \A y \in S : x <= y

\* the difference of the first match found
FirstMatchDifference(expectedClicks, heard) ==
  IF SeedPositions(expectedClicks, heard) = {} THEN 0
  ELSE LET j == Least(SeedPositions(expectedClicks, heard))
           k == Least({i \in DOMAIN expectedClicks :
                         FrequencyMatches(heard[j], expectedClicks[i])})
       IN  heard[j].timestamp - expectedClicks[k].time

\* C31: the seed offset of matchDetections is the difference
\* detection.timestamp - expected.time of the first match found: the earliest
\* of the first 5 heard with a schedule entry within the frequency
\* tolerance, paired with the first such entry, also when it is 0.
C31_SeedIsFirstMatch ==
  mPhase = "matched" =>
    EstimateOffset(getClickTimestamps(mConfig), mDetections, 1, 0)
      = FirstMatchDifference(getClickTimestamps(mConfig), mDetections)

\* the schedule indices consumed by the pairs of detections before j
ConsumedBefore(j) ==
  {mPairs[q].index : q \in {r \in DOMAIN mPairs : mPairs[r].detection < j}}

\* the detections that got a pair
PairedDetections == {mPairs[q].detection : q \in DOMAIN mPairs}

\* C32: every pair of matchDetections joins a detection with a schedule
\* entry not consumed before, at most 150 Hz away in frequency and less than
\* 300 ms from detectedTime after the estimated offset, at a distance no
\* other unconsumed frequency-compatible entry undercuts; a detection without
\* such an entry gets no pair.
C32_PairsAreNearestCandidates ==
  (mPhase = "matched" /\ mDetections # <<>>) =>
    LET expectedClicks == getClickTimestamps(mConfig)
        estimatedOffset == EstimateOffset(expectedClicks, mDetections, 1, 0)
    IN  /\ \A q \in DOMAIN mPairs :
             LET p == mPairs[q]
                 d == mDetections[p.detection]
             IN  /\ p.index \in DOMAIN expectedClicks
                 /\ p.index \notin ConsumedBefore(p.detection)
                 /\ p.expectedTime = expectedClicks[p.index].time
                 /\ p.detectedTime = d.timestamp
                 /\ Abs(d.frequency - expectedClicks[p.index].frequency) <= 150
                 /\ Abs(d.timestamp - (p.expectedTime + estimatedOffset)) < 300
                 /\ \A i \in DOMAIN expectedClicks :
                      (/\ i \notin ConsumedBefore(p.detection)
                       /\ Abs(d.frequency - expectedClicks[i].frequency) <= 150)
                      => Abs(d.timestamp - (expectedClicks[i].time + estimatedOffset))
                           >= Abs(d.timestamp - (p.expectedTime + estimatedOffset))
                 /\ \A r \in DOMAIN mPairs : r < q => mPairs[r].detection < p.detection
        /\ \A j \in DOMAIN mDetections :
             j \notin PairedDetections =>
               ~\E i \in DOMAIN expectedClicks :
                   /\ i \notin ConsumedBefore(j)
                   /\ Abs(mDetections[j].frequency - expectedClicks[i].frequency) <= 150
                   /\ Abs(mDetections[j].timestamp
                          - (expectedClicks[i].time + estimatedOffset)) < 300

\* two detections paired, the second with an entry other than the nearest
\* one, which the first had consumed, and a third detection left without a
\* pair
C32_Witness ==
  /\ mPhase = "matched"
  /\ Len(mDetections) = 3
  /\ Len(mPairs) = 2
  /\ \E q \in DOMAIN mPairs :
       \E i \in ConsumedBefore(mPairs[q].detection) :
          LET expectedClicks == getClickTimestamps(mConfig)
              d == mDetections[mPairs[q].detection]
              estimatedOffset == EstimateOffset(expectedClicks, mDetections, 1, 0)
          IN  /\ Abs(d.frequency - expectedClicks[i].frequency) <= 150
              /\ Abs(d.timestamp - (expectedClicks[i].time + estimatedOffset))
                   < Abs(d.timestamp - (mPairs[q].expectedTime + estimatedOffset))

(***************************************************************************)
(* SpecOffset: OffsetCalculator.calculateOffset on short integer buffers.  *)
(*                                                                         *)
(* With n the length and S the sum of the template, normalize gives         *)
(* (n*x - S) / (n*std) when std > 0 and 0 otherwise, and each correlation   *)
(* value is sum / count.  The correlation is kept as the integers           *)
(*   corr[lag] * n * std * n!                                               *)
(* (taken with n*std = 1 when std = 0, where every value is 0): a positive  *)
(* factor common to all values, which leaves the peak position, the         *)
(* refinement and the prominence (peak - mean) / std unchanged.  The        *)
(* confidence min(1, max(0, prominence / 10)) is "one", "zero", "between"   *)
(* or, when prominence is 0 / 0, "NaN".                                     *)
(***************************************************************************)
MaxTemplate == 2

MaxRecorded == 3

BufferValues == {-1, 0, 1}

RECURSIVE Factorial(_)
Factorial(n) == IF n <= 1 THEN 1 ELSE n * Factorial(n - 1)

\* normalize, times n*std
normalize(arr) ==
  LET scaled == [i \in DOMAIN arr |-> Len(arr) * arr[i] - SumSeq(arr)]
      stdPositive == \E i \in DOMAIN arr : scaled[i] # 0
  IN  [i \in DOMAIN arr |-> IF stdPositive THEN scaled[i] ELSE 0]

\* crossCorrelate; position lag + 1 holds the value of the lag
crossCorrelate(template, recorded) ==
  LET templateNorm == normalize(template)
      outputLength == Len(template) + Len(recorded) - 1
      Overlap(lag) == {i \in 0..(Len(template) - 1) :
                         /\ lag - Len(template) + 1 + i >= 0
                         /\ lag - Len(template) + 1 + i < Len(recorded)}
      RECURSIVE SumOver(_, _)
      SumOver(lag, I) ==
        IF I = {} THEN 0
        ELSE LET i == CHOOSE x \in I : TRUE
             IN  templateNorm[i + 1] * recorded[lag - Len(template) + 1 + i + 1]
                 + SumOver(lag, I \ {i})
  IN  [p \in 1..outputLength |->
         LET lag == p - 1
             count == Cardinality(Overlap(lag))
         IN  IF count > 0
             THEN SumOver(lag, Overlap(lag)) * (Factorial(Len(template)) \div count)
             ELSE 0]

\* findPeak: the first largest value, refined between its neighbours; the
\* peak value is the fraction num / den with den > 0
findPeak(correlation) ==
  LET peakPos == CHOOSE p \in DOMAIN correlation :
                    /\ \A q \in DOMAIN correlation : correlation[q] <= correlation[p]
                    /\ \A q \in 1..(p - 1) : correlation[q] < correlation[p]
      inner == peakPos > 1 /\ peakPos < Len(correlation)
      y0 == correlation[peakPos - 1]
      y1 == correlation[peakPos]
      y2 == correlation[peakPos + 1]
      curve == y0 - 2 * y1 + y2
  IN  IF inner /\ curve # 0 /\ Abs(y0 - y2) < 2 * Abs(curve)
      THEN [peakIndex |-> peakPos - 1, refined |-> TRUE,
            num |-> (IF curve < 0 THEN -1 ELSE 1) * (8 * y1 * curve - (y0 - y2) * (y0 - y2)),
            den |-> 8 * Abs(curve)]
      ELSE [peakIndex |-> peakPos - 1, refined |-> FALSE,
            num |-> correlation[peakPos], den |-> 1]

calculateOffset(expectedClick, recordedAudio) ==
  LET correlation == crossCorrelate(expectedClick, recordedAudio)
      peak == findPeak(correlation)
      len == Len(correlation)
      \* (peakValue - meanCorrelation) * len * peak.den
      aboveMean == peak.num * len - SumSeq(correlation) * peak.den
      \* stdCorrelation squared, times len^3
      spread == SumSeq([i \in DOMAIN correlation |->
                          (len * correlation[i] - SumSeq(correlation))
                          * (len * correlation[i] - SumSeq(correlation))])
      confidence ==
        IF spread = 0
        THEN (IF aboveMean = 0 THEN "NaN" ELSE IF aboveMean > 0 THEN "one" ELSE "zero")
        ELSE IF aboveMean <= 0 THEN "zero"
        ELSE IF aboveMean * aboveMean * len >= 100 * spread * peak.den * peak.den
        THEN "one"
        ELSE "between"
  IN  [offsetSamples |-> peak.peakIndex - Len(expectedClick), refined |-> peak.refined,
       confidence |-> confidence]

CalculateOffset(expectedClick, recordedAudio) ==
  /\ fnIn.op = "none"
  /\ fnIn' = [op |-> "offset", expectedClick |-> expectedClick,
              recordedAudio |-> recordedAudio]
  /\ fnOut' = [op |-> "offset", result |-> calculateOffset(expectedClick, recordedAudio)]
  /\ FnFrame

\* the result handed on to a caller
ReturnOffset ==
  /\ fnIn.op = "offset"
  /\ fnOut.op = "offset"
  /\ fnOut' = [fnOut EXCEPT !.op = "offsetReturned"]
  /\ UNCHANGED fnIn
  /\ FnFrame

NextOffset ==
  \/ \E n \in 1..MaxTemplate, k \in 1..MaxRecorded :
       \E expectedClick \in [1..n -> BufferValues], recordedAudio \in [1..k -> BufferValues] :
          CalculateOffset(expectedClick, recordedAudio)
  \/ ReturnOffset

SpecOffset == Init /\ [][NextOffset]_vars

\* C33: calculateOffset returns a confidence within [0,1] for every input,
\* also when the correlation has zero standard deviation (an all-zero
\* recording, a constant template): the confidence is never NaN.
C33_ConfidenceWithinUnitInterval ==
  fnOut.op \in {"offset", "offsetReturned"} =>
    fnOut.result.confidence \in {"zero", "between", "one"}

(***************************************************************************)
(* SpecGap: processMeasurement with samples whole seconds apart, up to     *)
(* months.  Microsecond timestamps that far apart exceed the integers of   *)
(* the checker, so here lastUpdateTime counts seconds and dt, which the     *)
(* code computes as (t4 - lastUpdateTime) / 1000000, is the gap itself:     *)
(* the quotient is exact for a whole number of seconds.                    *)
(***************************************************************************)
MaxGapSamples == 2

GapsSec == {1, 2147, 1000000, 13000000, 20000000}

MeasureAfterGap(gapSeconds, x) ==
  /\ Len(samples) < MaxGapSamples
  /\ LET m == ExchangeAt(0, x)
     IN  clock' = IF clock.measurementCount = 0
                  THEN firstMeasurement(clock, measuredOffsetOf(m.t1, m.t2, m.t3, m.t4),
                                        clock.lastUpdateTime + gapSeconds)
                  ELSE kalmanUpdate(clock, measuredOffsetOf(m.t1, m.t2, m.t3, m.t4),
                                    rttOf(m.t1, m.t2, m.t3, m.t4),
                                    F64FromInt(gapSeconds),
                                    clock.lastUpdateTime + gapSeconds)
  /\ samples' = Append(samples, [gap |-> gapSeconds, exchange |-> x])
  /\ UNCHANGED <<syncState, fresh, resetCalls>>
  /\ UNCHANGED <<sessionVars, matchVars, partVars>>

NextGap ==
  \E gapSeconds \in GapsSec,
     x \in { [up |-> 0, down |-> 0, theta |-> 0],
             [up |-> 100, down |-> 100, theta |-> 250],
             [up |-> 1000, down |-> 1000, theta |-> 0],
             [up |-> 400, down |-> 601, theta |-> -300] } : MeasureAfterGap(gapSeconds, x)

SpecGap == Init /\ [][NextGap]_vars

\* C34: after any sequence of processMeasurement calls offsetVariance and
\* driftVariance are strictly positive.
C34_VariancesStayPositive ==
  /\ F64Lt(F64Zero, clock.offsetVariance)
  /\ F64Lt(F64Zero, clock.driftVariance)

(***************************************************************************)
(* SpecStale: one SendspinSyncClient connected and disconnected again and  *)
(* again, and the events of the sockets it no longer holds.  A socket that *)
(* was closed receives no more messages; its error (when it was closed     *)
(* while connecting) and its close event are still delivered.              *)
(***************************************************************************)
MaxConnects == 3

\* connect(serverUrl) on a client in any state
SyncConnect ==
  /\ conn.connects < MaxConnects
  /\ conn' = [(IF conn.socket # "none" THEN disconnectSync(conn) ELSE conn)
                EXCEPT !.state = "connecting", !.socket = "connecting",
                       !.errored = FALSE, !.connect = "pending", !.timeout = TRUE,
                       !.converged = FALSE, !.connects = @ + 1]
  /\ clock' = reset(clock)
  /\ samples' = <<>>
  /\ ConnFrame

\* disconnect() called by the owner
SyncDisconnect ==
  /\ conn.connects > 0
  /\ conn' = disconnectSync(conn)
  /\ UNCHANGED <<clock, samples>>
  /\ ConnFrame

\* ws.onerror of a socket the client no longer holds
StaleError(i) ==
  /\ conn.old[i].errorDue
  /\ conn' = [conn EXCEPT !.old[i] = [errorDue |-> FALSE, timeout |-> FALSE]]
  /\ UNCHANGED <<clock, samples>>
  /\ ConnFrame

\* ws.onclose of a socket the client no longer holds
StaleClose(i) ==
  /\ ~conn.old[i].errorDue
  /\ ~conn.old[i].timeout
  /\ conn' = [conn EXCEPT !.old = RemoveAt(@, i), !.syncLoop = FALSE,
                          !.state = "disconnected"]
  /\ UNCHANGED <<clock, samples>>
  /\ ConnFrame

\* the 10 s timer of a connect() call whose socket the client no longer holds
StaleTimeout(i) ==
  /\ conn.old[i].timeout
  /\ conn' = disconnectSync([conn EXCEPT !.old[i].timeout = FALSE])
  /\ UNCHANGED <<clock, samples>>
  /\ ConnFrame

NextStale ==
  \/ SyncConnect
  \/ SyncDisconnect
  \/ OnOpen
  \/ OnError
  \/ OnClose
  \/ OnServerHello
  \/ \E converges \in BOOLEAN : OnServerTime(converges)
  \/ OnConnectTimeout
  \/ \E i \in DOMAIN conn.old : StaleError(i)
  \/ \E i \in DOMAIN conn.old : StaleClose(i)
  \/ \E i \in DOMAIN conn.old : StaleTimeout(i)

SpecStale == Init /\ [][NextStale]_vars

\* C35: the close event of a socket that the client has disconnected or
\* superseded by a later connect() has no effect on the client: its state,
\* its sync timer and the convergence of its clock stay as they are.
C35_StaleEventsHaveNoEffect ==
  [][ (\E i \in DOMAIN conn.old : StaleClose(i))
        => /\ conn'.state = conn.state
           /\ conn'.syncLoop = conn.syncLoop
           /\ conn'.converged = conn.converged ]_vars

(***************************************************************************)
(* SpecCommand: sendCommand on a MAWebSocketClient, the responses of the   *)
(* server and the request timers.  A call is one accepted sendCommand: its *)
(* message id is its index in ma.calls; pending says that pendingRequests  *)
(* holds its entry, settles counts the calls of its resolve and reject,    *)
(* and arrived keeps the results of the responses handled for it.          *)
(***************************************************************************)
MaxCommands == 2

MaxPartials == 2

MaxCommandSockets == 1

Undefined == [kind |-> "undefined", items |-> <<>>]

Scalar(v) == [kind |-> "value", items |-> <<v>>]

Array(items) == [kind |-> "array", items |-> items]

\* the responses of the server to one request
Responses ==
  {[error |-> TRUE, partial |-> FALSE, result |-> Undefined]}
    \cup [error : {FALSE}, partial : {TRUE},
          result : {Scalar(1), Array(<<>>), Array(<<1, 2>>)}]
    \cup [error : {FALSE}, partial : {FALSE},
          result : {Undefined, Scalar(3), Array(<<3, 4>>)}]

\* isConnected
isConnected(m) ==
  /\ m.ws # 0
  /\ m.sockets[m.ws].state = "open"
  /\ m.initialized

\* sendCommand(command, args, timeoutMs) on a connected client
sendCommandRequest(m) ==
  [m EXCEPT !.calls = Append(@, [pending |-> TRUE, timeout |-> TRUE, socket |-> m.ws,
                                 partialResults |-> <<>>, settles |-> 0,
                                 outcome |-> "none", value |-> Undefined,
                                 arrived |-> <<>>])]

\* handleMessage: a later response answers a request again
handleMessageKeepEntry(calls, id, message) ==
  LET request == calls[id]
  IN  IF message.error
      THEN [calls EXCEPT ![id] = [request EXCEPT !.timeout = FALSE,
                                                 !.settles = @ + 1, !.outcome = "error"]]
      ELSE IF message.partial /\ message.result.kind # "undefined"
      THEN [calls EXCEPT ![id] = [request EXCEPT !.partialResults = @ \o message.result.items,
                                                 !.arrived = Append(@, message.result)]]
      ELSE [calls EXCEPT ![id] =
              [request EXCEPT !.timeout = FALSE, !.pending = FALSE, !.settles = @ + 1,
                              !.outcome = "resolved",
                              !.arrived = Append(@, message.result),
                              !.value = IF Len(request.partialResults) > 0
                                        THEN Array(request.partialResults \o message.result.items)
                                        ELSE message.result]]

\* handleMessage for a message that carries message id id
handleMessage(calls, id, message) ==
  LET request == calls[id]
  IN  IF ~request.pending THEN calls
      ELSE IF message.error
      THEN [calls EXCEPT ![id] = [request EXCEPT !.timeout = FALSE, !.pending = FALSE,
                                                 !.settles = @ + 1, !.outcome = "error"]]
      ELSE IF message.partial /\ message.result.kind # "undefined"
      THEN [calls EXCEPT ![id] = [request EXCEPT !.partialResults = @ \o message.result.items,
                                                 !.arrived = Append(@, message.result)]]
      ELSE [calls EXCEPT ![id] =
              [request EXCEPT !.timeout = FALSE, !.pending = FALSE, !.settles = @ + 1,
                              !.outcome = "resolved",
                              !.arrived = Append(@, message.result),
                              !.value = IF Len(request.partialResults) > 0
                                        THEN Array(request.partialResults \o message.result.items)
                                        ELSE message.result]]

SendCommand ==
  /\ Len(ma.calls) < MaxCommands
  /\ isConnected(ma)
  /\ ma' = sendCommandRequest(ma)
  /\ MAFrame

\* ws.onmessage of the socket that carried request id, with a response to it
MAResponse(id, message) ==
  /\ ma.sockets[ma.calls[id].socket].state = "open"
  /\ ma.initialized
  /\ Len(ma.calls[id].arrived) < MaxPartials + 1
  /\ message.partial => Len(ma.calls[id].arrived) < MaxPartials
  /\ ma' = [ma EXCEPT !.calls = handleMessage(@, id, message)]
  /\ MAFrame

\* the setTimeout callback of request id
MARequestTimeout(id) ==
  /\ ma.calls[id].timeout
  /\ ma' = [ma EXCEPT !.calls[id] = [@ EXCEPT !.timeout = FALSE, !.pending = FALSE,
                                              !.settles = @ + 1,
                                              !.outcome = IF ma.calls[id].settles = 0
                                                          THEN "timeout" ELSE @]]
  /\ MAFrame

NextCommand ==
  \/ Len(ma.sockets) < MaxCommandSockets /\ MAConnect
  \/ \E i \in DOMAIN ma.sockets : MAOpen(i)
  \/ \E i \in DOMAIN ma.sockets : MAServerInfo(i)
  \/ \E i \in DOMAIN ma.sockets : MAClose(i)
  \/ MADisconnect
  \/ SendCommand
  \/ \E id \in DOMAIN ma.calls : \E message \in Responses : MAResponse(id, message)
  \/ \E id \in DOMAIN ma.calls : MARequestTimeout(id)

\* a timer that is armed and not cleared fires
SpecCommand ==
  /\ Init
  /\ [][NextCommand]_vars
  /\ \A id \in 1..MaxCommands :
       WF_vars(id \in DOMAIN ma.calls /\ MARequestTimeout(id))

RECURSIVE Flatten(_)
Flatten(results) ==
  IF results = <<>> THEN <<>> ELSE Head(results).items \o Flatten(Tail(results))

CallSettledOnce(c) ==
  /\ c.settles <= 1
  /\ c.pending <=> c.settles = 0
  /\ c.settles = 1 <=> c.outcome \in {"resolved", "error", "timeout", "closed"}
  /\ c.outcome = "resolved"
        => LET partials == Flatten(SubSeq(c.arrived, 1, Len(c.arrived) - 1))
               final == c.arrived[Len(c.arrived)]
           IN  c.value = IF partials # <<>> THEN Array(partials \o final.items)
                         ELSE final

\* C36: every accepted sendCommand settles exactly once, by its final
\* response, an error response, its timeout or disconnect(); its entry
\* leaves pendingRequests at that moment, a later response changes nothing,
\* and the partial results are delivered as one array in arrival order with
\* the final result after them (when no partial result was collected the
\* final result is delivered as it came).
C36_CommandSettlesOnce ==
  /\ [](\A id \in DOMAIN ma.calls : CallSettledOnce(ma.calls[id]))
  /\ \A id \in 1..MaxCommands :
       (id \in DOMAIN ma.calls) ~> (id \in DOMAIN ma.calls /\ ma.calls[id].settles = 1)
  /\ [][\A id \in DOMAIN ma.calls :
          ma.calls[id].settles = 1 => ma'.calls[id] = ma.calls[id]]_vars

C36_Witness ==
  /\ Len(ma.calls) = 2
  /\ ma.calls[1].outcome = "resolved"
  /\ ma.calls[1].value = Array(<<1, 1, 2, 3>>)
  /\ ma.calls[2].outcome = "closed"

(***************************************************************************)
(* The sockets of a MAWebSocketClient, under SpecReconnect.                *)
(***************************************************************************)
LiveSockets == {i \in DOMAIN ma.sockets : ma.sockets[i].state \in {"connecting", "open"}}

\* C37: a MAWebSocketClient has at most one live WebSocket (connecting or
\* open) at any time, whatever the order of connect(), disconnect(), close
\* events and reconnect timers.
C37_AtMostOneLiveSocket ==
  Cardinality(LiveSockets) <= 1

(***************************************************************************)
(* The schedule a session matches against and its deadline, under          *)
(* SpecMatch.                                                              *)
(***************************************************************************)
\* C38: the schedule a session matches against has config.totalClicks
\* entries, and its last click is earlier than the deadline
\* totalClicks * clickIntervalMs + 5000 ms.
C38_ScheduleHasTotalClicks ==
  mPhase = "matched" =>
    LET expectedClicks == getClickTimestamps(mConfig)
    IN  /\ Len(expectedClicks) = mConfig.totalClicks
        /\ expectedClicks[Len(expectedClicks)].time
             < mConfig.totalClicks * mConfig.clickIntervalMs + StartupSlackMs

(***************************************************************************)
(* SpecProgress: the session of Spec with a microphone that hears more     *)
(* than the track: every onset the detector lets through is recorded.      *)
(***************************************************************************)
MaxHeard == 2

\* the detection callback once more during the same run
DetectionAgain(d, elapsed, f) ==
  /\ Len(detections) < MaxHeard
  /\ handleDetection(d, elapsed, f)

NextProgress ==
  \/ Next
  \/ \E d \in Runs, elapsed \in SessionTimestamps, f \in SessionFrequencies :
       DetectionAgain(d, elapsed, f)

SpecProgress == Init /\ [][NextProgress]_vars

\* C39: the number of recorded detections never exceeds totalClicks, during
\* the run (getProgress: detected <= total, percentage <= 100) and in the
\* completed result (detectedClicks <= totalClicks).
C39_DetectionsWithinTotalClicks ==
  /\ Len(detections) <= config.totalClicks
  /\ \A r \in Runs :
       lastResult[r] # NoCalibrationResult
         => lastResult[r].detectedClicks <= lastResult[r].totalClicks

====
